---------------------------- MODULE Spec2Model ----------------------------
(***************************************************************************)
(* Failure-analysis pipeline of buildwise: the repository reference        *)
(* extractors, the repository materializer (clone_repository), the         *)
(* semantic index store (chunk_and_store_to_vector_db), the context        *)
(* retriever and the tiered diagnosis (JenkinsAnalyzer.analyze_failure).    *)
(*                                                                         *)
(* Text is modelled as the code sees it: a file's content is a sequence of  *)
(* lines, a line is a sequence of one-character strings, and substring      *)
(* tests, regular-expression searches and case folding are computed on      *)
(* those characters.                                                        *)
(***************************************************************************)
EXTENDS Integers, Sequences, FiniteSets, TLC

---------------------------------------------------------------------------
(* Characters and strings                                                  *)

UpperChars == <<"A","B","C","D","E","F","G","H","I","J","K","L","M","N","O","P","Q","R","S","T","U","V","W","X","Y","Z">>

LowerChars == <<"a","b","c","d","e","f","g","h","i","j","k","l","m","n","o","p","q","r","s","t","u","v","w","x","y","z">>

\* str.lower() / re.IGNORECASE on one character
LowerChar(c) ==
  IF \E i \in 1..Len(UpperChars) : UpperChars[i] = c
    THEN LowerChars[CHOOSE i \in 1..Len(UpperChars) : UpperChars[i] = c]
    ELSE c

\* str.lower()
Lower(s) == SubSeq([i \in 1..Len(s) |-> LowerChar(s[i])], 1, Len(s))

\* str.find, 1-based; 0 when sub does not occur in s
Find(sub, s) ==
  LET hits == {i \in 1..(Len(s) - Len(sub) + 1) : SubSeq(s, i, i + Len(sub) - 1) = sub}
  IN  IF hits = {} THEN 0 ELSE CHOOSE i \in hits : \A j \in hits : i <= j

\* Python's  sub in s  (case-sensitive)
Contains(sub, s) == Find(sub, s) # 0

\* Python's  sub in content  for a content held as its lines (no signature
\* of the code holds a newline)
InContent(sub, content) == \E i \in 1..Len(content) : Contains(sub, content[i])

\* sub in content.lower()
InContentLower(sub, content) == \E i \in 1..Len(content) : Contains(sub, Lower(content[i]))

\* s.startswith(p), s.endswith(p)
StartsWith(s, p) == Len(s) >= Len(p) /\ SubSeq(s, 1, Len(p)) = p

EndsWith(s, p) == Len(s) >= Len(p) /\ SubSeq(s, Len(s) - Len(p) + 1, Len(s)) = p

\* f as an explicit table of its values
Tabulated(f) == f @@ <<>>

\* concatenation of a sequence of sequences (list.extend in a loop)
RECURSIVE Flatten(_)
Flatten(ss) == IF ss = <<>> THEN <<>> ELSE Head(ss) \o Flatten(Tail(ss))

\* re.findall(sig + '.*', content, re.IGNORECASE): '.' stops at the newline,
\* so each line gives at most one match, from the leftmost occurrence of the
\* signature (letter case ignored) to the end of the line
RECURSIVE FindAllIC(_, _)
FindAllIC(sig, content) ==
  IF content = <<>> THEN <<>>
  ELSE LET line == Head(content)
           p == Find(Lower(sig), Lower(line))
       IN  (IF p = 0 THEN <<>> ELSE <<SubSeq(line, p, Len(line))>>)
             \o FindAllIC(sig, Tail(content))

---------------------------------------------------------------------------
(* MongoDBAnalyzer (backend/models/mongodb_analyzer.py)                    *)

SigDns == <<"g","e","t","a","d","d","r","i","n","f","o"," ","E","N","O","T","F","O","U","N","D">>

SigAuthFailed == <<"A","u","t","h","e","n","t","i","c","a","t","i","o","n"," ","f","a","i","l","e","d">>

SigSelTimeout == <<"S","e","r","v","e","r"," ","s","e","l","e","c","t","i","o","n"," ","t","i","m","e","o","u","t">>

SigUnreachable == <<"N","e","t","w","o","r","k"," ","i","s"," ","u","n","r","e","a","c","h","a","b","l","e">>

SigMongoSel == <<"M","o","n","g","o","S","e","r","v","e","r","S","e","l","e","c","t","i","o","n","E","r","r","o","r">>

SigMongoNet == <<"M","o","n","g","o","N","e","t","w","o","r","k","E","r","r","o","r">>

\* self.mongodb_error_patterns, each pattern being  <signature>.*
mongodb_error_patterns ==
  << SigMongoSel, SigMongoNet, SigDns, <<"C","o","n","n","e","c","t","i","o","n"," ","r","e","f","u","s","e","d">>,
     <<"N","o"," ","p","r","i","m","a","r","y"," ","a","v","a","i","l","a","b","l","e">>, SigSelTimeout, SigAuthFailed, SigUnreachable >>

\* the loop of analyze_mongodb_issue: findall of every pattern, in order
MongoErrors(content) ==
  Flatten([k \in 1..Len(mongodb_error_patterns) |->
             FindAllIC(mongodb_error_patterns[k], content)])

\* any(sig in error for error in errors), case-sensitive
AnyErrorHas(sig, errors) == \E i \in 1..Len(errors) : Contains(sig, errors[i])

\* the if / elif chain of _analyze_specific_error
MongoRootCause(errors) ==
  IF AnyErrorHas(SigDns, errors) THEN "DNS Resolution Failure"
  ELSE IF AnyErrorHas(SigAuthFailed, errors) THEN "MongoDB Authentication Failure"
  ELSE IF AnyErrorHas(SigSelTimeout, errors) THEN "MongoDB Connection Timeout"
  ELSE IF AnyErrorHas(SigUnreachable, errors) THEN "Network Connectivity Issue"
  ELSE "General MongoDB Connection Issue"

\* _analyze_specific_error: the analysis text, as its headings in order
AnalyzeSpecificError(errors) ==
  << "## MongoDB Connection Issue Analysis",
     "**Root Cause**: " \o MongoRootCause(errors) >>
  \o (IF AnyErrorHas(SigDns, errors)
        THEN << "**Detailed Analysis**", "**Immediate Fix Steps**" >>
        ELSE IF MongoRootCause(errors) = "General MongoDB Connection Issue"
               THEN <<>> ELSE << "**Fix Steps**" >>)
  \o << "**Common Troubleshooting Steps**", "**Prevention Measures**",
        "**Priority**: High", "**Estimated Time**: 30-60 minutes",
        "**Impact**: Critical", "**Next Steps**" >>

\* analyze_mongodb_issue with a detector that matches nothing
analyze_mongodb_issue_never(content) == [is_mongodb_issue |-> FALSE]

\* analyze_mongodb_issue
analyze_mongodb_issue(content) ==
  LET errors == MongoErrors(content)
  IN  IF errors = <<>>
        THEN [is_mongodb_issue |-> FALSE]
        ELSE [is_mongodb_issue |-> TRUE,
              errors_found |-> errors,
              analysis |-> AnalyzeSpecificError(errors)]

---------------------------------------------------------------------------
(* Repository reference extraction                                         *)

\* str.split(sep) for a one-character separator
RECURSIVE Split(_, _)
Split(s, sep) ==
  LET p == Find(<<sep>>, s)
  IN  IF p = 0 THEN <<s>>
      ELSE <<SubSeq(s, 1, p - 1)>> \o Split(SubSeq(s, p + 1, Len(s)), sep)

\* str.strip() (the whitespace of a line is the blank)
RECURSIVE Strip(_)
Strip(s) ==
  IF s = <<>> THEN s
  ELSE IF Head(s) = " " THEN Strip(Tail(s))
  ELSE IF s[Len(s)] = " " THEN Strip(SubSeq(s, 1, Len(s) - 1))
  ELSE s

\* str.rstrip(chars): drops every trailing character that is in chars
RECURSIVE RStrip(_, _)
RStrip(s, chars) ==
  IF s # <<>> /\ s[Len(s)] \in chars THEN RStrip(SubSeq(s, 1, Len(s) - 1), chars) ELSE s

\* position of the last occurrence of sub in s, 0 when there is none
FindLast(sub, s) ==
  LET hits == {i \in 1..(Len(s) - Len(sub) + 1) : SubSeq(s, i, i + Len(sub) - 1) = sub}
  IN  IF hits = {} THEN 0 ELSE CHOOSE i \in hits : \A j \in hits : i >= j

DotGit == <<".","g","i","t">>

HttpsPrefix == <<"h","t","t","p","s",":","/","/">>

GithubPrefix == <<"h","t","t","p","s",":","/","/","g","i","t","h","u","b",".","c","o","m","/">>

\* one whitespace-free run against  <prefix>[^\s]+\.git : the match starts at
\* the leftmost prefix and, [^\s]+ being greedy, ends with the last ".git" that
\* leaves at least one character after the prefix
GitUrlInRun(prefix, run) ==
  LET p == Find(prefix, run)
      rest == SubSeq(run, p + Len(prefix) + 1, Len(run))
      q == FindLast(DotGit, rest)
  IN  IF p = 0 \/ q = 0 THEN <<>>
      ELSE <<SubSeq(run, p, p + Len(prefix) + q + Len(DotGit) - 1)>>

\* re.findall(<prefix>[^\s]+\.git, content)
FindAllGitUrls(prefix, content) ==
  Flatten([i \in 1..Len(content) |->
     LET runs == Split(content[i], " ")
     IN  Flatten([k \in 1..Len(runs) |-> GitUrlInRun(prefix, runs[k])])])

CloningLead == <<"C","l","o","n","i","n","g"," ","r","e","p","o","s","i","t","o","r","y"," ">>

\* one line against  Cloning repository (<prefix>[^\s]+) : the group runs to
\* the next blank and must hold at least one character after the prefix
RECURSIVE CloningInLine(_, _)
CloningInLine(prefix, line) ==
  LET p == Find(CloningLead \o prefix, line)
      from == SubSeq(line, p + Len(CloningLead), Len(line))
      e == Find(<<" ">>, from)
      url == IF e = 0 THEN from ELSE SubSeq(from, 1, e - 1)
  IN  IF p = 0 THEN <<>>
      ELSE IF Len(url) > Len(prefix)
             THEN <<url>> \o CloningInLine(prefix, SubSeq(from, Len(url) + 1, Len(from)))
             ELSE CloningInLine(prefix, SubSeq(line, p + 1, Len(line)))

\* re.findall(r'Cloning repository (<prefix>[^\s]+)', content)
FindAllCloning(prefix, content) ==
  Flatten([i \in 1..Len(content) |-> CloningInLine(prefix, content[i])])

\* the elements of a list, as set(list) holds them
Range(seq) == {seq[i] : i \in 1..Len(seq)}

\* [x for x in seq if x is non-empty after strip], stripped
RECURSIVE StripNonEmpty(_)
StripNonEmpty(seq) ==
  IF seq = <<>> THEN <<>>
  ELSE (IF Strip(Head(seq)) = <<>> THEN <<>> ELSE <<Strip(Head(seq))>>)
         \o StripNonEmpty(Tail(seq))

\* list(set(xs)): every order of the distinct elements is a possible list
Orderings(S) ==
  {f \in [1..Cardinality(S) -> S] : \A i, j \in 1..Cardinality(S) : i # j => f[i] # f[j]}

\* the first line of content.split('\n')
FirstLine(content) == IF content = <<>> THEN <<>> ELSE content[1]

\* JenkinsAnalyzer._extract_repos_from_log on a file that was read: the
\* candidates in the order in which repos.extend collects them
RagCandidates(content) ==
  LET first == FirstLine(content)
      first_line_repos ==
        IF Contains(<<"g","i","t","h","u","b",".","c","o","m">>, first) \/ Contains(<<"h","t","t","p">>, first)
          THEN StripNonEmpty(Split(first, ",")) ELSE <<>>
  IN  first_line_repos \o FindAllGitUrls(GithubPrefix, content)
        \o FindAllGitUrls(HttpsPrefix, content)
        \o FindAllCloning(HttpsPrefix, content)

\* ... and the distinct candidates, before list(set(...)) fixes an order
RagRepoSet(content) == Range(RagCandidates(content))

\* ... and the lists it can return: list(set(repos)) in some order, then
\* [repo.strip() for repo in repos if repo.strip()]
RagExtractResults(content) == {StripNonEmpty(o) : o \in Orderings(RagRepoSet(content))}

\* len(repo.split('/')) >= 5
MinUrlParts == 5

\* the validation of jenkins_fetch_and_vectorize.extract_repos_from_log
ValidRepo(repo) ==
  /\ StartsWith(repo, GithubPrefix)
  /\ EndsWith(repo, DotGit)
  /\ Len(Split(repo, "/")) >= MinUrlParts
  /\ ~Contains(<<"a","p","i",".","g","i","t">>, repo)

additional_repos ==
  << <<"h","t","t","p","s",":","/","/","g","i","t","h","u","b",".","c","o","m","/","M","e","e","s","h","o","/","d","e","v","o","p","s","-","l","i","b",".","g","i","t">>,
     <<"h","t","t","p","s",":","/","/","g","i","t","h","u","b",".","c","o","m","/","M","e","e","s","h","o","/","r","i","n","g","m","a","s","t","e","r","-","b","a","c","k","e","n","d",".","g","i","t">>,
     <<"h","t","t","p","s",":","/","/","g","i","t","h","u","b",".","c","o","m","/","M","e","e","s","h","o","/","r","i","n","g","m","a","s","t","e","r","-","f","r","o","n","t","e","n","d",".","g","i","t">> >>

\* [r for r in seq if r not in have]
RECURSIVE Without(_, _)
Without(seq, have) ==
  IF seq = <<>> THEN <<>>
  ELSE (IF Head(seq) \in have THEN <<>> ELSE <<Head(seq)>>) \o Without(Tail(seq), have)

\* extract_repos_from_log without the branch that takes the first line
FetchValidSetScanOnly(content) ==
  LET all == FindAllGitUrls(GithubPrefix, content) \o FindAllCloning(GithubPrefix, content)
  IN  {r \in Range(all) : ValidRepo(r)}

\* jenkins_fetch_and_vectorize.extract_repos_from_log on a file that was
\* read: the distinct valid references before their order is fixed
FetchValidSet(content) ==
  LET first == Strip(FirstLine(content))
      listed == IF first # <<>> /\ Contains(<<",">>, first)
                  THEN [i \in 1..Len(Split(first, ",")) |-> Strip(Split(first, ",")[i])]
                  ELSE <<>>
      all == listed \o FindAllGitUrls(GithubPrefix, content)
               \o FindAllCloning(GithubPrefix, content)
  IN  {r \in Range(all) : ValidRepo(r)}

\* ... and the lists it can return: the valid ones in some order, then the
\* additional repositories that are not among them
FetchExtractResults(content) ==
  {valid \o Without(additional_repos, Range(valid)) : valid \in Orderings(FetchValidSet(content))}

\* vector_indexer.extract_repos_from_log on a file that was read
IndexerExtract(content) ==
  LET first_line == Strip(FirstLine(content))
  IN  IF StartsWith(first_line, <<"h","t","t","p">>) \/ Contains(<<"g","i","t","h","u","b",".","c","o","m">>, first_line)
        THEN Split(first_line, ",") ELSE <<>>

\* repo_url.rstrip('.git').split('/')[-1]
RepoName(repo_url) ==
  LET parts == Split(RStrip(repo_url, {".", "g", "i", "t"}), "/")
  IN  parts[Len(parts)]

\* url.split("/")[-1].replace(".git", "")  (vector_indexer.clone_repo)
RECURSIVE RemoveAll(_, _)
RemoveAll(s, sub) ==
  LET p == Find(sub, s)
  IN  IF p = 0 THEN s
      ELSE SubSeq(s, 1, p - 1) \o RemoveAll(SubSeq(s, p + Len(sub), Len(s)), sub)

IndexerRepoName(url) ==
  LET parts == Split(url, "/") IN RemoveAll(parts[Len(parts)], DotGit)

---------------------------------------------------------------------------
(* Build metadata (JenkinsAnalyzer._extract_build_info)                    *)

Digits == <<"0","1","2","3","4","5","6","7","8","9">>

IsDigit(c) == \E i \in 1..Len(Digits) : Digits[i] = c

DigitVal(c) == (CHOOSE i \in 1..Len(Digits) : Digits[i] = c) - 1

AllDigits(s) == \A i \in 1..Len(s) : IsDigit(s[i])

\* int() of a two-digit field
Num2(s) == 10 * DigitVal(s[1]) + DigitVal(s[2])

\* int() of the four-digit year
Num4(s) == 100 * Num2(SubSeq(s, 1, 2)) + Num2(SubSeq(s, 3, 4))

\* re.search(r'build_(\d+)', filename): the digits after the leftmost
\* "build_" that a digit follows; <<>> when there is no match
BuildNumberOf(filename) ==
  LET lead == <<"b","u","i","l","d","_">>
      starts == {p \in 1..Len(filename) :
                   /\ p + Len(lead) <= Len(filename)
                   /\ SubSeq(filename, p, p + Len(lead) - 1) = lead
                   /\ IsDigit(filename[p + Len(lead)])}
      p0 == CHOOSE p \in starts : \A q \in starts : p <= q
      d0 == p0 + Len(lead)
      ends == {e \in d0..Len(filename) :
                 AllDigits(SubSeq(filename, d0, e))
                 /\ (e = Len(filename) \/ ~IsDigit(filename[e + 1]))}
  IN  IF starts = {} THEN <<>> ELSE SubSeq(filename, d0, CHOOSE e \in ends : TRUE)

StampLen == 15

\* re.search(r'(\d{8}_\d{6})', filename): the leftmost match, <<>> when none
TimestampOf(filename) ==
  LET hits == {p \in 1..(Len(filename) - StampLen + 1) :
                 /\ AllDigits(SubSeq(filename, p, p + 7))
                 /\ filename[p + 8] = "_"
                 /\ AllDigits(SubSeq(filename, p + 9, p + 14))}
  IN  IF hits = {} THEN <<>>
      ELSE SubSeq(filename, (CHOOSE p \in hits : \A q \in hits : p <= q),
                  (CHOOSE p \in hits : \A q \in hits : p <= q) + StampLen - 1)

DaysIn(y, m) ==
  IF m \in {4, 6, 9, 11} THEN 30
  ELSE IF m = 2 THEN (IF (y % 4 = 0 /\ y % 100 # 0) \/ y % 400 = 0 THEN 29 ELSE 28)
  ELSE 31

\* datetime.strptime(timestamp, '%Y%m%d_%H%M%S') succeeds
StampParses(ts) ==
  LET y == Num4(SubSeq(ts, 1, 4))
      m == Num2(SubSeq(ts, 5, 6))
      d == Num2(SubSeq(ts, 7, 8))
  IN  /\ y >= 1
      /\ m \in 1..12
      /\ d \in 1..DaysIn(y, m)
      /\ Num2(SubSeq(ts, 10, 11)) <= 23
      /\ Num2(SubSeq(ts, 12, 13)) <= 59
      /\ Num2(SubSeq(ts, 14, 15)) <= 59

\* dt.strftime('%Y-%m-%d %H:%M:%S')
FormatStamp(ts) ==
  SubSeq(ts, 1, 4) \o <<"-">> \o SubSeq(ts, 5, 6) \o <<"-">> \o SubSeq(ts, 7, 8)
    \o <<" ">> \o SubSeq(ts, 10, 11) \o <<":">> \o SubSeq(ts, 12, 13)
    \o <<":">> \o SubSeq(ts, 14, 15)

Unknown == <<"U","n","k","n","o","w","n">>

\* re.search(lead + r'(.+)', content): the rest of the first line that holds
\* lead followed by at least one character
RECURSIVE RestAfter(_, _)
RestAfter(lead, content) ==
  IF content = <<>> THEN <<>>
  ELSE LET line == Head(content)
           hits == {p \in 1..Len(line) :
                      /\ p + Len(lead) <= Len(line)
                      /\ SubSeq(line, p, p + Len(lead) - 1) = lead}
           p0 == CHOOSE p \in hits : \A q \in hits : p <= q
       IN  IF hits = {} THEN RestAfter(lead, Tail(content))
           ELSE SubSeq(line, p0 + Len(lead), Len(line))

WordChars == Range(UpperChars) \cup Range(LowerChars) \cup Range(Digits) \cup {"_"}

\* the longest prefix of s made of \w characters
RECURSIVE WordPrefix(_)
WordPrefix(s) ==
  IF s = <<>> \/ Head(s) \notin WordChars THEN <<>> ELSE <<Head(s)>> \o WordPrefix(Tail(s))

\* re.search(r'Finished: (\w+)', content): the word after the first
\* "Finished: " that a word character follows
RECURSIVE FinishedWord(_)
FinishedWord(content) ==
  IF content = <<>> THEN <<>>
  ELSE LET lead == <<"F","i","n","i","s","h","e","d",":"," ">>
           line == Head(content)
           hits == {p \in 1..Len(line) :
                      /\ p + Len(lead) <= Len(line)
                      /\ SubSeq(line, p, p + Len(lead) - 1) = lead
                      /\ line[p + Len(lead)] \in WordChars}
           p0 == CHOOSE p \in hits : \A q \in hits : p <= q
       IN  IF hits = {} THEN FinishedWord(Tail(content))
           ELSE WordPrefix(SubSeq(line, p0 + Len(lead), Len(line)))

\* a dict as a function on the keys it holds
Put(d, k, v) == [x \in DOMAIN d \cup {k} |-> IF x = k THEN v ELSE d[x]]

EmptyDict == [x \in {} |-> <<>>]

\* _extract_build_info without the try / except around strptime
extract_build_info_unguarded(filename, content) ==
  LET number == BuildNumberOf(filename)
      ts == TimestampOf(filename)
      user == RestAfter(<<"S","t","a","r","t","e","d"," ","b","y"," ","u","s","e","r"," ">>, content)
      status == FinishedWord(content)
      d1 == IF number = <<>> THEN EmptyDict ELSE Put(EmptyDict, "build_number", number)
      d2 == IF ts = <<>> THEN d1 ELSE Put(d1, "build_time", FormatStamp(ts))
      d3 == IF user = <<>> THEN d2 ELSE Put(d2, "started_by", user)
  IN  IF ts # <<>> /\ ~StampParses(ts) THEN [raised |-> "ValueError"]
      ELSE IF status = <<>> THEN d3 ELSE Put(d3, "status", status)

\* _extract_build_info(log_path, log_content); filename is basename(log_path)
extract_build_info(filename, content) ==
  LET number == BuildNumberOf(filename)
      ts == TimestampOf(filename)
      user == RestAfter(<<"S","t","a","r","t","e","d"," ","b","y"," ","u","s","e","r"," ">>, content)
      status == FinishedWord(content)
      d1 == IF number = <<>> THEN EmptyDict ELSE Put(EmptyDict, "build_number", number)
      d2 == IF ts = <<>> THEN d1
            ELSE Put(d1, "build_time", IF StampParses(ts) THEN FormatStamp(ts) ELSE Unknown)
      d3 == IF user = <<>> THEN d2 ELSE Put(d2, "started_by", user)
  IN  IF status = <<>> THEN d3 ELSE Put(d3, "status", status)

---------------------------------------------------------------------------
(* Local heuristic tier (JenkinsAnalyzer._local_analysis)                  *)

\* re.findall(a + '.*' + b + '.*', content, re.IGNORECASE): a line matches
\* when b occurs after the leftmost a
RECURSIVE FindAllIC2(_, _, _)
FindAllIC2(a, b, content) ==
  IF content = <<>> THEN <<>>
  ELSE LET line == Head(content)
           p == Find(Lower(a), Lower(line))
           rest == SubSeq(line, p + Len(a), Len(line))
       IN  (IF p # 0 /\ Find(Lower(b), Lower(rest)) # 0
              THEN <<SubSeq(line, p, Len(line))>> ELSE <<>>)
             \o FindAllIC2(a, b, Tail(content))

\* error_patterns and the findall loop over them
ErrorsFound(content) ==
  FindAllIC(<<"E","R","R","O","R">>, content) \o FindAllIC(<<"E","x","c","e","p","t","i","o","n">>, content)
    \o FindAllIC(<<"F","a","i","l","e","d">>, content) \o FindAllIC(<<"E","r","r","o","r">>, content)
    \o FindAllIC(<<"A","u","t","h","e","n","t","i","c","a","t","i","o","n","E","r","r","o","r">>, content) \o FindAllIC(<<"4","0","1">>, content)
    \o FindAllIC(<<"4","0","3">>, content) \o FindAllIC(<<"5","0","0">>, content)
    \o FindAllIC2(<<"B","u","i","l","d">>, <<"f","a","i","l","e","d">>, content)
    \o FindAllIC2(<<"S","t","e","p">>, <<"f","a","i","l","e","d">>, content)
    \o FindAllIC(<<"M","o","n","g","o","D","B">>, content) \o FindAllIC(SigMongoSel, content)
    \o FindAllIC(SigMongoNet, content) \o FindAllIC(SigDns, content)
    \o FindAllIC2(<<"D","o","c","k","e","r">>, <<"E","r","r","o","r">>, content)
    \o FindAllIC2(<<"E","C","R">>, <<"E","r","r","o","r">>, content)

\* the condition of the first branch of the if / elif chain
LocalDbBranch(content) ==
  \/ InContent(SigMongoSel, content)
  \/ InContent(SigMongoNet, content)
  \/ InContent(SigDns, content)

\* the if / elif chain with its last elif taken for every remaining text
LocalRootCauseNoDefault(content) ==
  IF LocalDbBranch(content) THEN "MongoDB Connection Issue"
  ELSE IF InContent(<<"A","u","t","h","e","n","t","i","c","a","t","i","o","n","E","r","r","o","r">>, content) \/ InContent(<<"4","0","1">>, content)
    THEN "Authentication/API Key Error"
  ELSE IF InContentLower(<<"n","p","m">>, content) \/ InContentLower(<<"n","o","d","e">>, content)
    THEN "Node.js/npm Dependency Issue"
  ELSE IF InContentLower(<<"d","o","c","k","e","r">>, content) \/ InContentLower(<<"e","c","r">>, content)
    THEN "Docker/Container Issue"
  ELSE "Git Repository Issue"

\* the if / elif chain with the test for git moved before the test for npm
LocalRootCauseGitFirst(content) ==
  IF LocalDbBranch(content) THEN "MongoDB Connection Issue"
  ELSE IF InContent(<<"A","u","t","h","e","n","t","i","c","a","t","i","o","n","E","r","r","o","r">>, content) \/ InContent(<<"4","0","1">>, content)
    THEN "Authentication/API Key Error"
  ELSE IF InContentLower(<<"g","i","t">>, content) THEN "Git Repository Issue"
  ELSE IF InContentLower(<<"n","p","m">>, content) \/ InContentLower(<<"n","o","d","e">>, content)
    THEN "Node.js/npm Dependency Issue"
  ELSE IF InContentLower(<<"d","o","c","k","e","r">>, content) \/ InContentLower(<<"e","c","r">>, content)
    THEN "Docker/Container Issue"
  ELSE "General Build Failure"

\* the root cause the if / elif chain writes
LocalRootCause(content) ==
  IF LocalDbBranch(content) THEN "MongoDB Connection Issue"
  ELSE IF InContent(<<"A","u","t","h","e","n","t","i","c","a","t","i","o","n","E","r","r","o","r">>, content) \/ InContent(<<"4","0","1">>, content)
    THEN "Authentication/API Key Error"
  ELSE IF InContentLower(<<"n","p","m">>, content) \/ InContentLower(<<"n","o","d","e">>, content)
    THEN "Node.js/npm Dependency Issue"
  ELSE IF InContentLower(<<"d","o","c","k","e","r">>, content) \/ InContentLower(<<"e","c","r">>, content)
    THEN "Docker/Container Issue"
  ELSE IF InContentLower(<<"g","i","t">>, content) THEN "Git Repository Issue"
  ELSE "General Build Failure"

\* the analysis text of _local_analysis, as its headings in order
LocalText(content) ==
  << "## Local Analysis Results", "**Root Cause**: " \o LocalRootCause(content) >>
  \o (IF LocalDbBranch(content)
        THEN << "**Fix Instructions**", "**Specific MongoDB Fix**" >> ELSE <<>>)
  \o << "**Repositories Involved**" >>
  \o (IF ErrorsFound(content) # <<>> THEN << "**Error Details**" >> ELSE <<>>)
  \o << "**General Fix Suggestions**", "**Priority**: High",
        "**Estimated Time**: 30-60 minutes", "*Note: This is a local analysis.*" >>

---------------------------------------------------------------------------
(* The disk: log files, working copies, semantic indices                   *)

FailurePath == <<"l","o","g","s","/","f","a","i","l","u","r","e","/","j","o","b","_","b","u","i","l","d","_","2","3","0","_","2","0","2","5","0","7","3","1","_","1","2","5","9","2","4",".","t","x","t">>

SuccessPath == <<"l","o","g","s","/","s","u","c","c","e","s","s","/","j","o","b","_","b","u","i","l","d","_","2","2","9","_","2","0","2","5","0","7","3","0","_","1","0","1","5","0","0",".","t","x","t">>

LogPaths == {FailurePath, SuccessPath}

\* None of Python; like None, an empty path is falsy
None == <<>>

\* os.path.basename(path)
Basename(path) == LET parts == Split(path, "/") IN parts[Len(parts)]

UrlKit == <<"h","t","t","p","s",":","/","/","g","i","t","h","u","b",".","c","o","m","/","M","e","e","s","h","o","/","k","i","t",".","g","i","t">>

UrlK == <<"h","t","t","p","s",":","/","/","g","i","t","h","u","b",".","c","o","m","/","M","e","e","s","h","o","/","k",".","g","i","t">>

UrlExample == <<"h","t","t","p","s",":","/","/","e","x","a","m","p","l","e",".","c","o","m","/","o","r","g","/","r","e","p","o",".","g","i","t">>

LineDns == <<"E","r","r","o","r",":"," ","g","e","t","a","d","d","r","i","n","f","o"," ","E","N","O","T","F","O","U","N","D"," ","m","o","n","g","o","d","b","-","c","e","n","t","r","a","l","-","s","t","g","-","h","e","a","d","l","e","s","s">>

LineStep == <<"S","t","e","p"," ","4"," ","e","x","i","t","e","d"," ","w","i","t","h"," ","c","o","d","e"," ","1">>

\* the log contents the model draws from, each a sequence of lines
LogTexts ==
  { << UrlKit, LineDns >>,
    << UrlKit \o <<",">> \o UrlK, <<"S","t","a","r","t","e","d"," ","b","y"," ","u","s","e","r"," ","a","d","m","i","n">>, <<"n","p","m"," ","E","R","R","!"," ","c","o","d","e"," ","E","L","I","F","E","C","Y","C","L","E">> >>,
    << LineStep >>,
    << UrlExample, LineStep >>,
    << <<"g","e","t","a","d","d","r","i","n","f","o"," ","e","n","o","t","f","o","u","n","d"," ","d","b",".","l","o","c","a","l">>, <<"F","i","n","i","s","h","e","d",":"," ","F","A","I","L","U","R","E">> >>,
    << <<"M","o","n","g","o","N","e","t","w","o","r","k","E","r","r","o","r",":"," ","A","u","t","h","e","n","t","i","c","a","t","i","o","n"," ","f","a","i","l","e","d">> >>,
    << <<"A","u","t","h","e","n","t","i","c","a","t","i","o","n","E","r","r","o","r",":"," ","4","0","1"," ","U","n","a","u","t","h","o","r","i","z","e","d">> >>,
    << <<"A","u","t","h","e","n","t","i","c","a","t","i","o","n","E","r","r","o","r",":"," ","n","p","m"," ","l","o","g","i","n"," ","t","o"," ","d","o","c","k","e","r"," ","r","e","g","i","s","t","r","y"," ","f","a","i","l","e","d">> >>,
    << <<"C","l","o","n","i","n","g"," ","r","e","p","o","s","i","t","o","r","y"," ","h","t","t","p","s",":","/","/","g","i","t","h","u","b",".","c","o","m","/","M","e","e","s","h","o","/","k",".","g","i","t">>,
       <<"C","l","o","n","i","n","g"," ","r","e","p","o","s","i","t","o","r","y"," ","h","t","t","p","s",":","/","/","e","x","a","m","p","l","e",".","c","o","m","/","o","r","g","/","r","e","p","o",".","g","i","t">>, <<"d","o","c","k","e","r"," ","p","u","s","h"," ","f","a","i","l","e","d">> >>,
    << <<"C","o","n","n","e","c","t","i","o","n"," ","r","e","f","u","s","e","d"," ","b","y"," ","r","e","g","i","s","t","r","y">> >>,
    << <<>> >> }

Absent == [st |-> "absent", content |-> <<>>]

Unreadable == [st |-> "unreadable", content |-> <<>>]

Readable(content) == [st |-> "ok", content |-> content]

FileStates == {Absent, Unreadable} \cup {Readable(c) : c \in LogTexts}

\* the chunks the text splitter cuts from the indexable files of a repository
\* (its remote content); ringmaster-backend stands for a repository without
\* any file of the listed extensions
RepoChunks(url) ==
  LET n == IF url = UrlKit THEN 2
           ELSE IF url = additional_repos[2] THEN 0
           ELSE 1
  IN  [k \in 1..n |-> [repo |-> url, chunk |-> k]]

\* target_dir = f"cloned_repos/{repo_name}"
TargetDir(repo_url) == <<"c","l","o","n","e","d","_","r","e","p","o","s","/">> \o RepoName(repo_url)

\* os.path.join("vectorstore", f"{repo_name}_vectorstore")
LookupPath(repo_url) == <<"v","e","c","t","o","r","s","t","o","r","e","/">> \o RepoName(repo_url) \o <<"_","v","e","c","t","o","r","s","t","o","r","e">>

\* the tags the callers pass as second argument of process_log_and_repos
TagFailure == <<"f","a","i","l","u","r","e">>

TagAnalysis == <<"a","n","a","l","y","s","i","s">>

---------------------------------------------------------------------------
(* The pure functions above, evaluated once for each text and reference    *)
(* of the universe                                                         *)

MongoAnalysisOf == Tabulated([c \in LogTexts |-> analyze_mongodb_issue(c)])

LocalFactsOf == Tabulated([c \in LogTexts |-> [db_branch |-> LocalDbBranch(c), text |-> LocalText(c)]])

RagExtractOf == Tabulated([c \in LogTexts |-> RagExtractResults(c)])

FetchExtractOf == Tabulated([c \in LogTexts |-> FetchExtractResults(c)])

IndexerExtractOf == Tabulated([c \in LogTexts |-> IndexerExtract(c)])

BuildInfoOf == Tabulated([p \in LogPaths |-> [c \in LogTexts |-> extract_build_info(Basename(p), c)]])

VARIABLES
  files,      \* log path -> state and content of the file
  llm,        \* self.llm is set (a generative service is configured)
  slots,      \* existing working copies: target dir -> [url, complete]
  store,      \* existing semantic indices: path -> sequence of chunks
  run,        \* the process_log_and_repos invocation in progress
  result,     \* what the last call returned, or the exception it raised
  lastCall,   \* the last call: operation and arguments
  llmCalls,   \* invocations of the generative service during the last call
  genOut,     \* what the generative service did for the last call's prompt
  cloneHist,  \* the last two clone_repository calls
  fetchOk,    \* target dirs for which a git clone has exited with 0
  indexHist   \* the last two chunk_and_store_to_vector_db calls

vars == << files, llm, slots, store, run, result, lastCall, llmCalls, genOut,
           cloneHist, fetchOk, indexHist >>

Exists(fs, path) == path \in DOMAIN fs

---------------------------------------------------------------------------
(* Repository materializer (clone_repository)                              *)

\* what the git clone subprocess can do: exit 0 with the working copy in
\* place; exit non-zero, having removed what it created; run into the 300 s
\* timeout and be killed, before it created the target directory or after
GitOutcomes == {"ok", "nonzero", "timeout", "timeout_partial"}

\* clone_repository without the test of os.path.exists(target_dir)
clone_repository_unchecked(wc, repo_url, target_dir, git) ==
  IF git = "ok"
    THEN [ret |-> TRUE, ran |-> TRUE,
          slots |-> Put(wc, target_dir, [url |-> repo_url, complete |-> TRUE])]
  ELSE IF git = "timeout_partial"
    THEN [ret |-> FALSE, ran |-> TRUE,
          slots |-> Put(wc, target_dir, [url |-> repo_url, complete |-> FALSE])]
  ELSE [ret |-> FALSE, slots |-> wc, ran |-> TRUE]

\* clone_repository(repo_url, target_dir): the value returned, the working
\* copies afterwards, and whether git clone was run
clone_repository(wc, repo_url, target_dir, git) ==
  IF Exists(wc, target_dir)
    THEN [ret |-> TRUE, slots |-> wc, ran |-> FALSE]
  ELSE IF git = "ok"
    THEN [ret |-> TRUE, ran |-> TRUE,
          slots |-> Put(wc, target_dir, [url |-> repo_url, complete |-> TRUE])]
  ELSE IF git = "timeout_partial"
    THEN [ret |-> FALSE, ran |-> TRUE,
          slots |-> Put(wc, target_dir, [url |-> repo_url, complete |-> FALSE])]
  ELSE [ret |-> FALSE, slots |-> wc, ran |-> TRUE]

---------------------------------------------------------------------------
(* Semantic index store (chunk_and_store_to_vector_db)                     *)

\* the documents the rglob loops load from directory_path: the chunks of a
\* complete working copy; nothing from a path that is no directory (a log
\* file, a missing path) or from a clone that was killed before checkout
Documents(wc, directory_path) ==
  IF Exists(wc, directory_path) /\ wc[directory_path].complete
    THEN RepoChunks(wc[directory_path].url)
    ELSE <<>>

\* FAISS.from_documents / save_local either succeed or raise (caught)
EmbedOutcomes == {"ok", "error"}

\* chunk_and_store_to_vector_db adding the documents to the index that exists
\* instead of writing a new one over it
chunk_and_store_appending(wc, st, directory_path, vectorstore_path, embed) ==
  LET documents == Documents(wc, directory_path)
      old == IF Exists(st, vectorstore_path) THEN st[vectorstore_path] ELSE <<>>
  IN  IF documents = <<>>
        THEN [store |-> st, embedded |-> FALSE, saved |-> FALSE]
      ELSE IF embed = "ok"
        THEN [store |-> Put(st, vectorstore_path, old \o documents),
              embedded |-> TRUE, saved |-> TRUE]
      ELSE [store |-> st, embedded |-> TRUE, saved |-> FALSE]

\* chunk_and_store_to_vector_db(directory_path, vectorstore_path): the
\* indices afterwards, whether the embedding was run, whether one was saved
chunk_and_store_to_vector_db(wc, st, directory_path, vectorstore_path, embed) ==
  LET documents == Documents(wc, directory_path)
  IN  IF documents = <<>>
        THEN [store |-> st, embedded |-> FALSE, saved |-> FALSE]
      ELSE IF embed = "ok"
        THEN [store |-> Put(st, vectorstore_path, documents),
              embedded |-> TRUE, saved |-> TRUE]
      ELSE [store |-> st, embedded |-> TRUE, saved |-> FALSE]

---------------------------------------------------------------------------
(* Context retriever (JenkinsAnalyzer._get_repository_context)             *)

\* per repository whose index exists: FAISS.load_local raises (get_rag_chain
\* returns None); rag_chain.run raises in the retriever, before the language
\* model is called; it raises in the language model; it returns at most 50
\* characters; it returns more
QueryOutcomes == {"load_error", "retrieve_error", "llm_error", "short", "ok"}

\* rag_chain.run(query) got as far as calling self.llm
QueryCallsLlm(q) == q \in {"llm_error", "short", "ok"}

\* the loop over repos: the names whose section is appended to context_parts
\* (outs[i] is what the query of the i-th repository does when its index exists)
ContextParts(repos, st, outs) ==
  Flatten([i \in 1..Len(repos) |->
    IF Exists(st, LookupPath(repos[i])) /\ outs[i] = "ok"
      THEN <<RepoName(repos[i])>> ELSE <<>>])

\* ... and the number of language-model calls the loop makes
RECURSIVE ContextLlmCalls(_, _, _)
ContextLlmCalls(repos, st, outs) ==
  IF repos = <<>> THEN 0
  ELSE LET n == Len(repos)
       IN  (IF Exists(st, LookupPath(repos[n])) /\ QueryCallsLlm(outs[n]) THEN 1 ELSE 0)
             + ContextLlmCalls(SubSeq(repos, 1, n - 1), st, outs)

\* what the queries of one loop can do: an outcome for every repository whose
\* index exists (no query is made for the others)
QueriesFor(repos, st) ==
  LET indexed == {i \in 1..Len(repos) : Exists(st, LookupPath(repos[i]))}
  IN  {[i \in 1..Len(repos) |-> IF i \in indexed THEN q[i] ELSE "none"] :
         q \in [indexed -> QueryOutcomes]}

NoContextMessage == "No repository context available - vector stores may not be created or accessible."

\* _get_repository_context(repos, failure_content): the sections joined, or
\* the message that stands for no context
get_repository_context(repos, st, outs) ==
  LET parts == ContextParts(repos, st, outs)
  IN  [sections |-> parts,
       text |-> IF parts # <<>> THEN "sections" ELSE NoContextMessage,
       llm_calls |-> ContextLlmCalls(repos, st, outs)]

---------------------------------------------------------------------------
(* Local heuristic tier, as analyze_failure calls it                       *)

\* _local_analysis(failure_content, success_content, failure_repos, success_repos)
local_analysis(failure_content, failure_repos, success_repos) ==
  LET mongodb_analysis == MongoAnalysisOf[failure_content]
  IN  IF LocalFactsOf[failure_content].db_branch /\ mongodb_analysis.is_mongodb_issue
        THEN [analysis |-> mongodb_analysis.analysis,
              failure_repos |-> failure_repos,
              success_repos |-> success_repos,
              analysis_type |-> "mongodb_specialized"]
        ELSE [analysis |-> LocalFactsOf[failure_content].text,
              failure_repos |-> failure_repos,
              success_repos |-> success_repos,
              analysis_type |-> "local"]

---------------------------------------------------------------------------
(* Diagnosis pipeline (JenkinsAnalyzer.analyze_failure)                    *)

\* self.llm.invoke(prompt): an answer; an exception; a timeout (raised by the
\* client); a malformed response on which the client or the read of
\* response.content raises; a malformed response that is handed back, its
\* content no usable text (the code returns response.content as it is)
LlmOutcomes == {"ok", "exception", "timeout", "malformed_raises", "malformed_returned"}

\* invoke returned and response.content could be read
Returned(gen) == gen \in {"ok", "malformed_returned"}

\* response.content
ResponseContent(gen) == IF gen = "ok" THEN <<"response.content">> ELSE <<>>

Raised(exc) == [raised |-> exc]

IsRaised(r) == "raised" \in DOMAIN r

\* open(path).read(): the exception raised, "" when the read succeeds
ReadError(file) ==
  IF file.st = "absent" THEN "FileNotFoundError"
  ELSE IF file.st = "unreadable" THEN "UnicodeDecodeError"
  ELSE ""

\* the dict analyze_failure returns from tier 1
SpecializedReturn(fs, failure_log_path, success_log_path, failure_repos, success_repos) ==
  LET failure_content == fs[failure_log_path].content
  IN  [analysis |-> MongoAnalysisOf[failure_content].analysis \o <<"**Build Information**">>,
       failure_repos |-> failure_repos,
       success_repos |-> success_repos,
       failure_log_path |-> failure_log_path,
       success_log_path |-> success_log_path,
       analysis_type |-> "mongodb_specialized",
       build_info |-> BuildInfoOf[failure_log_path][failure_content]]

\* the dict analyze_failure returns from tier 2
GenerativeReturn(fs, failure_log_path, success_log_path, failure_repos, success_repos, gen) ==
  [analysis |-> ResponseContent(gen),
   failure_repos |-> failure_repos,
   success_repos |-> success_repos,
   failure_log_path |-> failure_log_path,
   success_log_path |-> success_log_path,
   analysis_type |-> "azure_openai_with_context",
   build_info |-> BuildInfoOf[failure_log_path][fs[failure_log_path].content],
   repository_context_used |-> TRUE]

\* analyze_failure with the generative tier tried before the specialized one
DiagnoseGenerativeFirst(fs, configured, st, failure_log_path, success_log_path, failure_repos, success_repos, outs, gen) ==
  LET failure_content == fs[failure_log_path].content
      ctx == get_repository_context(failure_repos, st, outs)
  IN  IF configured /\ Returned(gen)
        THEN [calls |-> ctx.llm_calls + 1, gen |-> gen,
              context |-> [retrieved |-> TRUE, sections |-> ctx.sections, text |-> ctx.text],
              ret |-> GenerativeReturn(fs, failure_log_path, success_log_path,
                                       failure_repos, success_repos, gen)]
      ELSE IF MongoAnalysisOf[failure_content].is_mongodb_issue
        THEN [calls |-> IF configured THEN ctx.llm_calls + 1 ELSE 0,
              gen |-> IF configured THEN gen ELSE "none",
              context |-> [retrieved |-> configured,
                           sections |-> IF configured THEN ctx.sections ELSE <<>>,
                           text |-> IF configured THEN ctx.text ELSE ""],
              ret |-> SpecializedReturn(fs, failure_log_path, success_log_path,
                                        failure_repos, success_repos)]
      ELSE [calls |-> IF configured THEN ctx.llm_calls + 1 ELSE 0,
            gen |-> IF configured THEN gen ELSE "none",
              context |-> [retrieved |-> configured,
                           sections |-> IF configured THEN ctx.sections ELSE <<>>,
                           text |-> IF configured THEN ctx.text ELSE ""],
            ret |-> local_analysis(failure_content, failure_repos, success_repos)]

\* analyze_failure with the test of self.llm inverted
DiagnoseInvertedGuard(fs, configured, st, failure_log_path, success_log_path, failure_repos, success_repos, outs, gen) ==
  LET failure_content == fs[failure_log_path].content
      ctx == get_repository_context(failure_repos, st, outs)
  IN  IF MongoAnalysisOf[failure_content].is_mongodb_issue
        THEN [calls |-> 0, gen |-> "none",
              context |-> [retrieved |-> FALSE, sections |-> <<>>, text |-> ""],
              ret |-> SpecializedReturn(fs, failure_log_path, success_log_path,
                                        failure_repos, success_repos)]
      ELSE IF configured
        THEN [calls |-> 0, gen |-> "none",
              context |-> [retrieved |-> FALSE, sections |-> <<>>, text |-> ""],
              ret |-> local_analysis(failure_content, failure_repos, success_repos)]
      ELSE IF Returned(gen)
        THEN [calls |-> ctx.llm_calls + 1, gen |-> gen,
              context |-> [retrieved |-> TRUE, sections |-> ctx.sections, text |-> ctx.text],
              ret |-> GenerativeReturn(fs, failure_log_path, success_log_path,
                                       failure_repos, success_repos, gen)]
      ELSE [calls |-> ctx.llm_calls + 1, gen |-> gen,
              context |-> [retrieved |-> TRUE, sections |-> ctx.sections, text |-> ctx.text],
            ret |-> local_analysis(failure_content, failure_repos, success_repos)]

\* analyze_failure after both logs were read and the references extracted:
\* tier 1, then tier 3 when no service is configured, then tier 2 falling
\* through to tier 3.  outs and gen are what the index queries and the
\* generative call do when they are reached.
Diagnose(fs, configured, st, failure_log_path, success_log_path, failure_repos, success_repos, outs, gen) ==
  LET failure_content == fs[failure_log_path].content
      ctx == get_repository_context(failure_repos, st, outs)
  IN  IF MongoAnalysisOf[failure_content].is_mongodb_issue
        THEN [calls |-> 0, gen |-> "none",
              context |-> [retrieved |-> FALSE, sections |-> <<>>, text |-> ""],
              ret |-> SpecializedReturn(fs, failure_log_path, success_log_path,
                                        failure_repos, success_repos)]
      ELSE IF ~configured
        THEN [calls |-> 0, gen |-> "none",
              context |-> [retrieved |-> FALSE, sections |-> <<>>, text |-> ""],
              ret |-> local_analysis(failure_content, failure_repos, success_repos)]
      ELSE IF Returned(gen)
        THEN [calls |-> ctx.llm_calls + 1, gen |-> gen,
              context |-> [retrieved |-> TRUE, sections |-> ctx.sections, text |-> ctx.text],
              ret |-> GenerativeReturn(fs, failure_log_path, success_log_path,
                                       failure_repos, success_repos, gen)]
      ELSE [calls |-> ctx.llm_calls + 1, gen |-> gen,
              context |-> [retrieved |-> TRUE, sections |-> ctx.sections, text |-> ctx.text],
            ret |-> local_analysis(failure_content, failure_repos, success_repos)]

\* the lists self._extract_repos_from_log(log_path) can return
JenkinsAnalyzer_extract_repos_from_log(fs, log_path) ==
  IF fs[log_path].st = "ok" THEN RagExtractOf[fs[log_path].content] ELSE {<<>>}

\* analyze_failure(failure_log_path, success_log_path): every way the call
\* can end, as [ret: the dict returned or the exception raised, calls: the
\* invocations of the generative service, gen: what self.llm.invoke did,
\* context: what _get_repository_context returned when it was called]
analyze_failure(fs, configured, st, f, s) ==
  IF ReadError(fs[f]) # ""
    THEN {[ret |-> Raised(ReadError(fs[f])), calls |-> 0, gen |-> "none",
           context |-> [retrieved |-> FALSE, sections |-> <<>>, text |-> ""]]}
    ELSE UNION { UNION { UNION {
           { Diagnose(fs, configured, st, f, s, failure_repos, success_repos, outs, gen) :
               gen \in LlmOutcomes }
           : outs \in QueriesFor(failure_repos, st) }
           : success_repos \in (IF s # None THEN JenkinsAnalyzer_extract_repos_from_log(fs, s) ELSE {<<>>}) }
           : failure_repos \in JenkinsAnalyzer_extract_repos_from_log(fs, f) }

---------------------------------------------------------------------------
(* Calls of analyze_failure as the batch and job-URL callers make them     *)

NoResult == [none |-> TRUE]

NoCall == [op |-> "none"]

\* no process_log_and_repos in progress
IdleRun ==
  [pc |-> "idle", log_path |-> None, tag |-> None,
   repos |-> <<>>, i |-> 1, cloned |-> <<>>, j |-> 1, indexed |-> <<>>]

\* indices left on disk by earlier processes
PreStores ==
  { EmptyDict,
    Put(EmptyDict, LookupPath(UrlKit), RepoChunks(UrlKit)),
    Put(Put(EmptyDict, LookupPath(UrlKit), RepoChunks(UrlKit)),
        LookupPath(UrlExample), RepoChunks(UrlExample)) }

\* the states of the comparison log
ComparisonStates ==
  {Absent, Readable(<< UrlKit, LineDns >>), Readable(<< UrlExample, LineStep >>)}

InitAnalyze ==
  /\ files \in {[p \in LogPaths |-> IF p = FailurePath THEN a ELSE b] :
                  a \in FileStates, b \in ComparisonStates}
  /\ llm \in BOOLEAN
  /\ slots = EmptyDict
  /\ store \in PreStores
  /\ run = IdleRun
  /\ result = NoResult
  /\ lastCall = NoCall
  /\ llmCalls = 0
  /\ genOut = "none"
  /\ cloneHist = <<>>
  /\ fetchOk = {}
  /\ indexHist = <<>>

\* analyzer.analyze_failure(failure_log, success_log), once from each initial
\* state (the call reads nothing that an earlier call wrote); the comparison
\* log the callers pass is one the fetcher saved, or none
CallAnalyzeFailure(f, s) ==
  /\ lastCall = NoCall
  /\ s # None => files[s].st # "unreadable"
  /\ \E d \in analyze_failure(files, llm, store, f, s) :
       /\ result' = d.ret
       /\ llmCalls' = d.calls
       /\ genOut' = d.gen
       /\ lastCall' = [op |-> "analyze_failure", failure_log_path |-> f,
                       success_log_path |-> s, context |-> d.context]
  /\ UNCHANGED << files, llm, slots, store, run, cloneHist, fetchOk, indexHist >>

NextAnalyze ==
  \E f \in LogPaths : \E s \in {None} \cup (LogPaths \ {f}) : CallAnalyzeFailure(f, s)

SpecAnalyze == InitAnalyze /\ [][NextAnalyze]_vars

---------------------------------------------------------------------------
(* Diagnosis pipeline: tier selection                                      *)

\* the last call was analyze_failure on a failure log that could be read
AnalyzedReadable ==
  /\ lastCall.op = "analyze_failure"
  /\ files[lastCall.failure_log_path].st = "ok"

AnalyzedContent == files[lastCall.failure_log_path].content

\* no line holds any database signature, in any letter case
NoDbSignature(content) ==
  \A k \in 1..Len(mongodb_error_patterns) : \A i \in 1..Len(content) :
    Find(Lower(mongodb_error_patterns[k]), Lower(content[i])) = 0

DnsSignatureIn == Tabulated([c \in LogTexts |-> InContent(SigDns, c)])

NoDbSignatureIn == Tabulated([c \in LogTexts |-> NoDbSignature(c)])

\* the text holds at least one character
NonEmptyText(content) == \E i \in 1..Len(content) : content[i] # <<>>

\* C1: for every failure log whose text contains the DNS-failure signature
\* "getaddrinfo ENOTFOUND", analyze_failure returns a result of analysis_type
\* 'mongodb_specialized', whether or not the generative service is
\* configured, and the generative service is not invoked in that call.
C1_SpecializedHasPriority ==
  (AnalyzedReadable /\ DnsSignatureIn[AnalyzedContent])
    => /\ ~IsRaised(result)
       /\ result.analysis_type = "mongodb_specialized"
       /\ llmCalls = 0

C1_Witness ==
  /\ AnalyzedReadable
  /\ DnsSignatureIn[AnalyzedContent]
  /\ llm
  /\ Exists(store, LookupPath(UrlKit))
  /\ result.analysis_type = "mongodb_specialized"

\* C2 as stated: with no generative service configured, analyze_failure
\* returns for every non-empty failure text a result of analysis_type 'local'
\* with a non-empty analysis text, and never raises.
C2_LocalForEveryText ==
  (AnalyzedReadable /\ ~llm /\ NonEmptyText(AnalyzedContent))
    => /\ ~IsRaised(result)
       /\ result.analysis_type = "local"
       /\ result.analysis # <<>>

\* C2 amended: with no generative service configured, analyze_failure
\* returns for every non-empty failure text that holds no signature of the
\* specialized detector a result of analysis_type 'local' with a non-empty
\* analysis text, and does not raise.
C2_LocalWhenNoSignature ==
  (AnalyzedReadable /\ ~llm /\ NonEmptyText(AnalyzedContent)
     /\ NoDbSignatureIn[AnalyzedContent])
    => /\ ~IsRaised(result)
       /\ result.analysis_type = "local"
       /\ result.analysis # <<>>

C2_Witness ==
  /\ AnalyzedReadable
  /\ ~llm
  /\ AnalyzedContent = << LineStep >>
  /\ result.analysis_type = "local"
  /\ result.analysis # <<>>

\* C3: when tier 1 found nothing and the generative service is configured,
\* an exception, a timeout or a malformed response of the generative
\* invocation makes analyze_failure return the local heuristic result
\* (analysis_type 'local'): it neither raises nor returns a generative result.
C3_GenerativeFailureFallsThrough ==
  (AnalyzedReadable /\ llm /\ NoDbSignatureIn[AnalyzedContent]
     /\ genOut \in LlmOutcomes \ {"ok"})
    => /\ ~IsRaised(result)
       /\ result.analysis_type = "local"

\* C14: whenever the specialized detector fires on a log that holds the
\* DNS-failure signature "getaddrinfo ENOTFOUND", in whatever letter case the
\* detector accepts and whatever other database signatures the log holds, the
\* diagnosis names the root cause "DNS Resolution Failure".
C14_DnsSignatureNamesDnsRootCause ==
  (/\ AnalyzedReadable
   /\ ~IsRaised(result)
   /\ result.analysis_type = "mongodb_specialized"
   /\ \E i \in 1..Len(AnalyzedContent) : Find(Lower(SigDns), Lower(AnalyzedContent[i])) # 0)
    => \E i \in 1..Len(result.analysis) :
         result.analysis[i] = "**Root Cause**: DNS Resolution Failure"

\* C15: with the generative tier disabled, every failure text that carries no
\* category signature (no database signature in any letter case and none of
\* the keywords of the local tier) yields a local heuristic diagnosis whose
\* root cause is "General Build Failure" and whose priority is "High".
C15_NoSignatureIsGeneralBuildFailure ==
  (/\ AnalyzedReadable
   /\ ~llm
   /\ NoDbSignatureIn[AnalyzedContent]
   /\ ~InContent(<<"A","u","t","h","e","n","t","i","c","a","t","i","o","n","E","r","r","o","r">>, AnalyzedContent)
   /\ ~InContent(<<"4","0","1">>, AnalyzedContent)
   /\ \A kw \in {<<"n","p","m">>, <<"n","o","d","e">>, <<"d","o","c","k","e","r">>, <<"e","c","r">>, <<"g","i","t">>} :
        ~InContentLower(kw, AnalyzedContent))
    => /\ ~IsRaised(result)
       /\ result.analysis_type = "local"
       /\ \E i \in 1..Len(result.analysis) :
            result.analysis[i] = "**Root Cause**: General Build Failure"
       /\ \E i \in 1..Len(result.analysis) : result.analysis[i] = "**Priority**: High"

C15_Witness ==
  /\ AnalyzedReadable
  /\ ~llm
  /\ AnalyzedContent = << LineStep >>
  /\ result.analysis_type = "local"
  /\ result.analysis[2] = "**Root Cause**: General Build Failure"

\* the generative tier was entered: _get_repository_context was called
ContextRetrieved == lastCall.op = "analyze_failure" /\ lastCall.context.retrieved

\* C16: the context retriever returns the empty string when no referenced
\* repository yields a result above the minimum length (no index exists, the
\* query fails, or every result is too short).
C16_NoContextIsEmptyString ==
  (ContextRetrieved /\ lastCall.context.sections = <<>>)
    => lastCall.context.text = ""

\* C17: the per-repository sections of the retrieved context appear in the
\* order in which the references were discovered in the log: a section never
\* precedes the section of a repository that was discovered earlier.
C17_SectionsFollowDiscoveryOrder ==
  (ContextRetrieved /\ Len(lastCall.context.sections) >= 2)
    => LET sections == lastCall.context.sections
           found == RagCandidates(AnalyzedContent)
           first(name) == CHOOSE i \in 1..Len(found) :
                            /\ RepoName(Strip(found[i])) = name
                            /\ \A j \in 1..(i - 1) : RepoName(Strip(found[j])) # name
       IN  \A a, b \in 1..Len(sections) : a < b => first(sections[a]) <= first(sections[b])

\* C18: in every result of analyze_failure the context-used flag is true
\* exactly when repository context was obtained and put into the generative
\* prompt; it is false (or left to its default, false) when the retriever
\* produced no context and in the results of the specialized and local tiers.
C18_FlagTellsContextWasUsed ==
  (AnalyzedReadable /\ ~IsRaised(result))
    => LET flag == IF "repository_context_used" \in DOMAIN result
                     THEN result.repository_context_used ELSE FALSE
       IN  flag <=> /\ result.analysis_type = "azure_openai_with_context"
                    /\ lastCall.context.sections # <<>>

\* C19: every result analyze_failure returns, whichever tier produced it,
\* carries the analysis text, the analysis type, the failure and success
\* repositories, the build information and the context-used flag.
C19_ResultCarriesAllFields ==
  (AnalyzedReadable /\ ~IsRaised(result))
    => {"analysis", "analysis_type", "failure_repos", "success_repos",
        "build_info", "repository_context_used"} \subseteq DOMAIN result

\* C22: in one analyze_failure call that reaches the generative tier the
\* generative service is invoked exactly once, whatever the number of
\* referenced repositories that have an index.
C22_GenerativeServiceInvokedOnce ==
  ContextRetrieved => llmCalls = 1

\* C23: the local tier picks the category by first match over the order
\* database, authentication, npm / node, docker / ecr, git, unknown: the text
\* of a local result reports exactly one root cause, that of the earliest
\* category whose signature the failure text holds.
C23_FirstMatchingCategoryWins ==
  (AnalyzedReadable /\ ~IsRaised(result) /\ result.analysis_type = "local")
    => LET c == AnalyzedContent
           lead == "**Root Cause**: "
           matches ==
             << InContent(SigMongoSel, c) \/ InContent(SigMongoNet, c) \/ InContent(SigDns, c),
                InContent(<<"A","u","t","h","e","n","t","i","c","a","t","i","o","n","E","r","r","o","r">>, c) \/ InContent(<<"4","0","1">>, c),
                InContentLower(<<"n","p","m">>, c) \/ InContentLower(<<"n","o","d","e">>, c),
                InContentLower(<<"d","o","c","k","e","r">>, c) \/ InContentLower(<<"e","c","r">>, c),
                InContentLower(<<"g","i","t">>, c),
                TRUE >>
           causes ==
             << "MongoDB Connection Issue", "Authentication/API Key Error",
                "Node.js/npm Dependency Issue", "Docker/Container Issue",
                "Git Repository Issue", "General Build Failure" >>
           earliest == CHOOSE k \in 1..6 : matches[k] /\ \A j \in 1..(k - 1) : ~matches[j]
           reported == {i \in 1..Len(result.analysis) :
                          \E k \in 1..6 : result.analysis[i] = lead \o causes[k]}
       IN  /\ Cardinality(reported) = 1
           /\ \A i \in reported : result.analysis[i] = lead \o causes[earliest]

C23_Witness ==
  /\ AnalyzedReadable
  /\ ~llm
  /\ AnalyzedContent = << <<"A","u","t","h","e","n","t","i","c","a","t","i","o","n","E","r","r","o","r",":"," ","n","p","m"," ","l","o","g","i","n"," ","t","o"," ","d","o","c","k","e","r"," ","r","e","g","i","s","t","r","y"," ","f","a","i","l","e","d">> >>
  /\ result.analysis_type = "local"
  /\ result.analysis[2] = "**Root Cause**: Authentication/API Key Error"

\* C29: when _local_analysis is reached through analyze_failure (generative
\* tier disabled or failed), its database branch is not taken and its result
\* is of analysis_type 'local', never 'mongodb_specialized': a text holding
\* MongoServerSelectionError, MongoNetworkError or getaddrinfo ENOTFOUND has
\* been claimed by the specialized tier.
C29_LocalTierNeverSeesDatabaseText ==
  (AnalyzedReadable /\ ~IsRaised(result) /\ "failure_log_path" \notin DOMAIN result)
    => /\ ~InContent(SigMongoSel, AnalyzedContent)
       /\ ~InContent(SigMongoNet, AnalyzedContent)
       /\ ~InContent(SigDns, AnalyzedContent)
       /\ result.analysis_type = "local"

C29_Witness ==
  /\ AnalyzedReadable
  /\ llm
  /\ genOut = "exception"
  /\ "failure_log_path" \notin DOMAIN result
  /\ result.analysis_type = "local"
  /\ lastCall.context.retrieved

---------------------------------------------------------------------------
(* analyze_specific_log: process_log_and_repos, then analyze_failure       *)

\* the lists jenkins_fetch_and_vectorize.extract_repos_from_log(log_path) can
\* return: [] when the file cannot be read (the except branch)
extract_repos_from_log(fs, log_path) ==
  IF fs[log_path].st = "ok" THEN FetchExtractOf[fs[log_path].content] ELSE {<<>>}

\* the contents of the log handed to analyze_specific_log
TopTexts == { << UrlKit, LineDns >>, << LineStep >> }

InitTop ==
  /\ files \in {[p \in LogPaths |-> IF p = FailurePath THEN a ELSE Absent] :
                  a \in {Absent, Unreadable} \cup {Readable(c) : c \in TopTexts}}
  /\ llm \in BOOLEAN
  /\ slots = EmptyDict
  /\ store \in {EmptyDict, Put(EmptyDict, LookupPath(UrlKit), RepoChunks(UrlKit))}
  /\ run = IdleRun
  /\ result = NoResult
  /\ lastCall = NoCall
  /\ llmCalls = 0
  /\ genOut = "none"
  /\ cloneHist = <<>>
  /\ fetchOk = {}
  /\ indexHist = <<>>

\* analyze_specific_log(log_path) enters process_log_and_repos(log_path,
\* "failure"): the references are extracted
StartSpecificLog(log_path) ==
  /\ run.pc = "idle"
  /\ \E repos \in extract_repos_from_log(files, log_path) :
       run' = [pc |-> IF repos = <<>> THEN "log" ELSE "clone",
               log_path |-> log_path, tag |-> TagFailure, repos |-> repos,
               i |-> 1, cloned |-> <<>>, j |-> 1, indexed |-> <<>>]
  /\ lastCall' = [op |-> "analyze_specific_log", log_path |-> log_path]
  /\ UNCHANGED << files, llm, slots, store, result, llmCalls, genOut,
                  cloneHist, fetchOk, indexHist >>

\* the loop over repos leaving for the index loop after the first clone
\* that succeeded
CloneStepLeavesEarly(git) ==
  /\ run.pc = "clone"
  /\ LET repo_url == run.repos[run.i]
         target_dir == TargetDir(repo_url)
         c == clone_repository(slots, repo_url, target_dir, git)
         cloned == IF c.ret THEN Append(run.cloned, target_dir) ELSE run.cloned
     IN  /\ slots' = c.slots
         /\ cloneHist' = Append(cloneHist, [repo_url |-> repo_url,
                                           target_dir |-> target_dir, ret |-> c.ret])
         /\ run' = [run EXCEPT !.i = @ + 1, !.cloned = cloned,
                               !.pc = IF cloned # <<>> THEN "index"
                                      ELSE IF run.i < Len(run.repos) THEN "clone"
                                      ELSE "log"]
  /\ UNCHANGED << files, llm, store, result, lastCall, llmCalls, genOut,
                  fetchOk, indexHist >>

\* the loop over repos appending target_dir whatever clone_repository returns
CloneStepKeepsFailed(git) ==
  /\ run.pc = "clone"
  /\ LET repo_url == run.repos[run.i]
         target_dir == TargetDir(repo_url)
         c == clone_repository(slots, repo_url, target_dir, git)
         cloned == Append(run.cloned, target_dir)
     IN  /\ slots' = c.slots
         /\ cloneHist' = Append(cloneHist, [repo_url |-> repo_url,
                                           target_dir |-> target_dir, ret |-> c.ret])
         /\ run' = [run EXCEPT !.i = @ + 1, !.cloned = cloned,
                               !.pc = IF run.i < Len(run.repos) THEN "clone" ELSE "index"]
  /\ UNCHANGED << files, llm, store, result, lastCall, llmCalls, genOut,
                  fetchOk, indexHist >>

\* one iteration of  for repo_url in repos  (cloneHist notes the call and
\* what it returned)
CloneStep(git) ==
  /\ run.pc = "clone"
  /\ LET repo_url == run.repos[run.i]
         target_dir == TargetDir(repo_url)
         c == clone_repository(slots, repo_url, target_dir, git)
         cloned == IF c.ret THEN Append(run.cloned, target_dir) ELSE run.cloned
     IN  /\ slots' = c.slots
         /\ cloneHist' = Append(cloneHist, [repo_url |-> repo_url,
                                           target_dir |-> target_dir, ret |-> c.ret])
         /\ run' = [run EXCEPT !.i = @ + 1, !.cloned = cloned,
                               !.pc = IF run.i < Len(run.repos) THEN "clone"
                                      ELSE IF cloned = <<>> THEN "log" ELSE "index"]
  /\ UNCHANGED << files, llm, store, result, lastCall, llmCalls, genOut,
                  fetchOk, indexHist >>

\* one iteration of  for repo_dir in cloned_repos  (indexHist notes the
\* call and how many clone_repository calls had returned before it)
IndexStep(embed) ==
  /\ run.pc = "index"
  /\ LET repo_dir == run.cloned[run.j]
         r == chunk_and_store_to_vector_db(slots, store, repo_dir, run.tag, embed)
     IN  /\ store' = r.store
         /\ indexHist' = Append(indexHist, [directory_path |-> repo_dir,
                                           clones |-> Len(cloneHist)])
         /\ run' = [run EXCEPT !.j = @ + 1,
                               !.indexed = IF r.saved THEN Append(@, repo_dir) ELSE @,
                               !.pc = IF run.j < Len(run.cloned) THEN "index" ELSE "log"]
  /\ UNCHANGED << files, llm, slots, result, lastCall, llmCalls, genOut,
                  cloneHist, fetchOk >>

\* chunk_and_store_to_vector_db(log_path, tag), the last statement of
\* process_log_and_repos
LogIndexStep(embed) ==
  /\ run.pc = "log"
  /\ store' = chunk_and_store_to_vector_db(slots, store, run.log_path, run.tag, embed).store
  /\ indexHist' = Append(indexHist, [directory_path |-> run.log_path,
                                    clones |-> Len(cloneHist)])
  /\ run' = [run EXCEPT !.pc = "analyze"]
  /\ UNCHANGED << files, llm, slots, result, lastCall, llmCalls, genOut,
                  cloneHist, fetchOk >>

\* analysis = self.analyzer.analyze_failure(log_path), outside any try
AnalyzeStep ==
  /\ run.pc = "analyze"
  /\ \E d \in analyze_failure(files, llm, store, run.log_path, None) :
       /\ result' = d.ret
       /\ llmCalls' = d.calls
       /\ genOut' = d.gen
  /\ run' = [run EXCEPT !.pc = "done"]
  /\ UNCHANGED << files, llm, slots, store, lastCall, cloneHist, fetchOk, indexHist >>

NextTop ==
  \/ \E log_path \in LogPaths : StartSpecificLog(log_path)
  \/ \E git \in GitOutcomes : CloneStep(git)
  \/ \E embed \in EmbedOutcomes : IndexStep(embed)
  \/ \E embed \in EmbedOutcomes : LogIndexStep(embed)
  \/ AnalyzeStep

SpecTop == InitTop /\ [][NextTop]_vars

\* analyze_specific_log has come to its end (returned or raised)
SpecificLogDone == lastCall.op = "analyze_specific_log" /\ run.pc = "done"

\* C4: when the failure log cannot be read (missing or unreadable file), the
\* top-level analysis does not raise and returns a result carrying an
\* explicit error field; in every other condition it returns a diagnosis.
C4_UnreadableLogGivesErrorField ==
  SpecificLogDone
    => /\ ~IsRaised(result)
       /\ IF files[run.log_path].st = "ok"
            THEN "analysis" \in DOMAIN result
            ELSE "error" \in DOMAIN result

\* the repositories of the processed log that have chunks were all cloned
\* and their index calls all saved
AllIndexed ==
  /\ run.pc \in {"analyze", "done"}
  /\ run.repos # <<>>
  /\ \A i \in 1..Len(run.repos) :
       /\ Exists(slots, TargetDir(run.repos[i]))
       /\ RepoChunks(run.repos[i]) # <<>> =>
            \E k \in 1..Len(run.indexed) : run.indexed[k] = TargetDir(run.repos[i])

\* C9: after process_log_and_repos has indexed the repositories R1..Rn of a
\* log, the index that _get_repository_context looks up for each Ri exists
\* and holds the chunks of Ri.
C9_EachRepositoryHasItsIndex ==
  AllIndexed
    => \A i \in 1..Len(run.repos) :
         RepoChunks(run.repos[i]) # <<>> =>
           /\ Exists(store, LookupPath(run.repos[i]))
           /\ store[LookupPath(run.repos[i])] = RepoChunks(run.repos[i])


\* C24: within one process_log_and_repos invocation every clone attempt has
\* finished before the first indexing call starts, and the log itself is
\* handed to the indexer only after all the cloned repositories.
C24_ClonesFinishBeforeIndexing ==
  lastCall.op = "analyze_specific_log"
    => \A k \in 1..Len(indexHist) :
         /\ indexHist[k].clones = Len(run.repos)
         /\ Len(cloneHist) = Len(run.repos)
         /\ IF k <= Len(run.cloned)
              THEN indexHist[k].directory_path = run.cloned[k]
              ELSE k = Len(run.cloned) + 1 /\ indexHist[k].directory_path = run.log_path

C24_Witness ==
  /\ run.pc = "done"
  /\ Len(run.repos) >= 3
  /\ Len(run.cloned) >= 2
  /\ Len(indexHist) = Len(run.cloned) + 1
  /\ indexHist[Len(indexHist)].directory_path = run.log_path

C28_SlotIsLastSegmentWithoutSuffix ==
  \A h \in 1..Len(cloneHist) :
    EndsWith(cloneHist[h].repo_url, DotGit)
      => /\ cloneHist[h].target_dir
              = <<"c","l","o","n","e","d","_","r","e","p","o","s","/">> \o IndexerRepoName(cloneHist[h].repo_url)
         /\ LookupPath(cloneHist[h].repo_url)
              = <<"v","e","c","t","o","r","s","t","o","r","e","/">> \o IndexerRepoName(cloneHist[h].repo_url)
                  \o <<"_","v","e","c","t","o","r","s","t","o","r","e">>

---------------------------------------------------------------------------
(* Direct calls of clone_repository                                        *)

\* the repositories cloned; kit.git and k.git get the same target directory
CloneUrls == {UrlKit, UrlK, UrlExample}

\* a history of calls, cut to the last two
LastTwo(hist, call) == IF Len(hist) = 2 THEN <<hist[2], call>> ELSE Append(hist, call)

InitClone ==
  /\ files = [p \in LogPaths |-> Absent]
  /\ llm = FALSE
  /\ slots = EmptyDict
  /\ store = EmptyDict
  /\ run = IdleRun
  /\ result = NoResult
  /\ lastCall = NoCall
  /\ llmCalls = 0
  /\ genOut = "none"
  /\ cloneHist = <<>>
  /\ fetchOk = {}
  /\ indexHist = <<>>

\* clone_repository(repo_url, f"cloned_repos/{repo_name}")
CallClone(repo_url, git) ==
  LET target_dir == TargetDir(repo_url)
      c == clone_repository(slots, repo_url, target_dir, git)
  IN  /\ slots' = c.slots
      /\ result' = [ret |-> c.ret]
      /\ lastCall' = [op |-> "clone_repository", repo_url |-> repo_url,
                      target_dir |-> target_dir]
      /\ cloneHist' = LastTwo(cloneHist,
                        [repo_url |-> repo_url, target_dir |-> target_dir,
                         ran |-> c.ran, ret |-> c.ret,
                         git |-> IF c.ran THEN git ELSE "none",
                         left |-> Exists(c.slots, target_dir)])
      /\ fetchOk' = IF c.ran /\ git = "ok" THEN fetchOk \cup {target_dir} ELSE fetchOk
      /\ UNCHANGED << files, llm, store, run, llmCalls, genOut, indexHist >>

NextClone == \E repo_url \in CloneUrls : \E git \in GitOutcomes : CallClone(repo_url, git)

SpecClone == InitClone /\ [][NextClone]_vars

\* the last two calls had the same repository URL and the same target slot
TwoSameClones ==
  /\ Len(cloneHist) = 2
  /\ cloneHist[1].repo_url = cloneHist[2].repo_url
  /\ cloneHist[1].target_dir = cloneHist[2].target_dir

\* the number of git clone runs among the last two calls
FetchesRun ==
  (IF cloneHist[1].ran THEN 1 ELSE 0) + (IF cloneHist[2].ran THEN 1 ELSE 0)

\* C5 as stated: two calls in sequence with the same URL and the same slot
\* run git clone at most once, and if the first reported success so does the
\* second.
C5_AtMostOneFetch ==
  TwoSameClones
    => /\ FetchesRun <= 1
       /\ cloneHist[1].ret => cloneHist[2].ret

\* C5 amended: of two calls in sequence with the same URL and the same slot,
\* if the first reported success the second runs no git clone and reports
\* success too, and at most one of the two runs a git clone that exits with 0.
C5_NoFetchAfterSuccess ==
  TwoSameClones
    => /\ cloneHist[1].ret => (~cloneHist[2].ran /\ cloneHist[2].ret)
       /\ ~(cloneHist[1].git = "ok" /\ cloneHist[2].git = "ok")

C5_Witness ==
  /\ TwoSameClones
  /\ cloneHist[1].ran /\ cloneHist[1].ret
  /\ ~cloneHist[2].ran /\ cloneHist[2].ret

\* C6: when git clone times out or exits non-zero, clone_repository returns
\* failure and leaves nothing in the slot; and a call reports success only
\* for a slot for which a git clone has exited with 0.
C6_FailedFetchLeavesNothing ==
  /\ \A k \in 1..Len(cloneHist) :
       (cloneHist[k].ran /\ cloneHist[k].git # "ok")
         => (~cloneHist[k].ret /\ ~cloneHist[k].left)
  /\ (lastCall.op = "clone_repository" /\ result.ret)
       => lastCall.target_dir \in fetchOk

---------------------------------------------------------------------------
(* Direct calls of chunk_and_store_to_vector_db                            *)

\* the working copies on disk: two complete ones, one without any indexable
\* file, one left behind by a clone that was killed
IndexSlots ==
  Put(Put(Put(Put(EmptyDict,
    TargetDir(UrlKit), [url |-> UrlKit, complete |-> TRUE]),
    TargetDir(additional_repos[1]), [url |-> additional_repos[1], complete |-> TRUE]),
    TargetDir(additional_repos[2]), [url |-> additional_repos[2], complete |-> TRUE]),
    TargetDir(UrlExample), [url |-> UrlExample, complete |-> FALSE])

\* the directory_path arguments: the working copies and, as the last
\* statement of process_log_and_repos passes it, a log file
IndexDirs == DOMAIN IndexSlots \cup {FailurePath}

\* the vectorstore_path arguments: a tag, as process_log_and_repos passes it,
\* and the path _get_repository_context looks up
IndexPaths == {TagFailure, LookupPath(UrlKit)}

InitIndex ==
  /\ files = [p \in LogPaths |-> Readable(<< UrlKit, LineDns >>)]
  /\ llm = FALSE
  /\ slots = IndexSlots
  /\ store \in PreStores
  /\ run = IdleRun
  /\ result = NoResult
  /\ lastCall = NoCall
  /\ llmCalls = 0
  /\ genOut = "none"
  /\ cloneHist = <<>>
  /\ fetchOk = {}
  /\ indexHist = <<>>

\* chunk_and_store_to_vector_db(directory_path, vectorstore_path)
CallIndex(directory_path, vectorstore_path, embed) ==
  LET r == chunk_and_store_to_vector_db(slots, store, directory_path, vectorstore_path, embed)
  IN  /\ store' = r.store
      /\ result' = [ret |-> None]
      /\ lastCall' = [op |-> "chunk_and_store_to_vector_db",
                      directory_path |-> directory_path,
                      vectorstore_path |-> vectorstore_path]
      /\ indexHist' = LastTwo(indexHist,
                        [directory_path |-> directory_path,
                         vectorstore_path |-> vectorstore_path,
                         documents |-> Documents(slots, directory_path),
                         existed |-> Exists(store, vectorstore_path),
                         embedded |-> r.embedded, saved |-> r.saved,
                         before |-> store, after |-> r.store])
      /\ UNCHANGED << files, llm, slots, run, llmCalls, genOut, cloneHist, fetchOk >>

NextIndex ==
  \E directory_path \in IndexDirs : \E vectorstore_path \in IndexPaths :
    \E embed \in EmbedOutcomes : CallIndex(directory_path, vectorstore_path, embed)

SpecIndex == InitIndex /\ [][NextIndex]_vars

\* C7: building the index for an identity whose index already exists is a
\* no-op: chunk_and_store_to_vector_db runs no embedding, writes nothing, and
\* leaves the stored index unchanged.
C7_ExistingIndexIsLeftAlone ==
  \A k \in 1..Len(indexHist) :
    indexHist[k].existed
      => /\ ~indexHist[k].embedded
         /\ ~indexHist[k].saved
         /\ indexHist[k].after = indexHist[k].before

\* the last two calls indexed the same directory, holding the same
\* documents, under the same path
TwoSameIndexings ==
  /\ Len(indexHist) = 2
  /\ indexHist[1].directory_path = indexHist[2].directory_path
  /\ indexHist[1].vectorstore_path = indexHist[2].vectorstore_path
  /\ indexHist[1].documents = indexHist[2].documents

\* C8: indexing the same unchanged repository twice leaves the indices, and
\* with them the answer to every later query, as one indexing leaves them:
\* as the first call left them when it saved, and in any case as one call
\* could have left them.
C8_SecondIndexingChangesNothing ==
  TwoSameIndexings
    => /\ indexHist[1].saved => indexHist[2].after = indexHist[1].after
       /\ indexHist[2].after \in
            {chunk_and_store_to_vector_db(slots, indexHist[1].before,
               indexHist[1].directory_path, indexHist[1].vectorstore_path, embed).store :
               embed \in EmbedOutcomes}

C8_Witness ==
  /\ TwoSameIndexings
  /\ indexHist[1].existed
  /\ indexHist[1].saved /\ indexHist[2].saved
  /\ indexHist[1].after # indexHist[1].before
  /\ indexHist[2].after = indexHist[1].after

---------------------------------------------------------------------------
(* Direct calls of the three repository reference extractors               *)

\* vector_indexer.extract_repos_from_log(log_path): open() and readline()
\* are outside any try block
vector_indexer_extract_repos_from_log(fs, log_path) ==
  IF ReadError(fs[log_path]) # ""
    THEN Raised(ReadError(fs[log_path]))
    ELSE [repos |-> IndexerExtractOf[fs[log_path].content]]

InitExtract ==
  /\ files \in [LogPaths -> FileStates]
  /\ llm = FALSE
  /\ slots = EmptyDict
  /\ store = EmptyDict
  /\ run = IdleRun
  /\ result = NoResult
  /\ lastCall = NoCall
  /\ llmCalls = 0
  /\ genOut = "none"
  /\ cloneHist = <<>>
  /\ fetchOk = {}
  /\ indexHist = <<>>

\* jenkins_fetch_and_vectorize.extract_repos_from_log(log_path)
CallFetchExtract(log_path) ==
  /\ \E repos \in extract_repos_from_log(files, log_path) : result' = [repos |-> repos]
  /\ lastCall' = [op |-> "extract_repos_from_log", log_path |-> log_path]
  /\ UNCHANGED << files, llm, slots, store, run, llmCalls, genOut,
                  cloneHist, fetchOk, indexHist >>

\* JenkinsAnalyzer._extract_repos_from_log(log_path)
CallRagExtract(log_path) ==
  /\ \E repos \in JenkinsAnalyzer_extract_repos_from_log(files, log_path) :
       result' = [repos |-> repos]
  /\ lastCall' = [op |-> "_extract_repos_from_log", log_path |-> log_path]
  /\ UNCHANGED << files, llm, slots, store, run, llmCalls, genOut,
                  cloneHist, fetchOk, indexHist >>

\* vector_indexer.extract_repos_from_log(log_path)
CallIndexerExtract(log_path) ==
  /\ result' = vector_indexer_extract_repos_from_log(files, log_path)
  /\ lastCall' = [op |-> "vector_indexer.extract_repos_from_log", log_path |-> log_path]
  /\ UNCHANGED << files, llm, slots, store, run, llmCalls, genOut,
                  cloneHist, fetchOk, indexHist >>

NextExtract ==
  \E log_path \in LogPaths :
    \/ CallFetchExtract(log_path)
    \/ CallRagExtract(log_path)
    \/ CallIndexerExtract(log_path)

SpecExtract == InitExtract /\ [][NextExtract]_vars

ExtractOps ==
  {"extract_repos_from_log", "_extract_repos_from_log", "vector_indexer.extract_repos_from_log"}

\* C10: no repository reference extractor raises; when the log cannot be
\* read (a missing file included) each returns an empty list.
C10_ExtractorsNeverRaise ==
  lastCall.op \in ExtractOps
    => /\ ~IsRaised(result)
       /\ files[lastCall.log_path].st # "ok" => result.repos = <<>>

\* C11: every reference returned by the extractors that feed analyze_failure
\* and process_log_and_repos has the validated shape (https scheme, github
\* host, path of the required depth, '.git' suffix, no API path).
C11_ReturnedReferencesAreValid ==
  (lastCall.op \in {"extract_repos_from_log", "_extract_repos_from_log"}
     /\ ~IsRaised(result))
    => \A i \in 1..Len(result.repos) : ValidRepo(result.repos[i])

\* C12 as stated: for a log whose first line is a comma-separated list of
\* valid-looking repository URLs, the output holds every URL of that line
\* and, besides them, only URLs that occur in the content.
C12_FirstLineListAndScannedOnly ==
  LET content == files[lastCall.log_path].content
      tokens == StripNonEmpty(Split(FirstLine(content), ","))
  IN  (lastCall.op \in {"extract_repos_from_log", "_extract_repos_from_log"}
         /\ files[lastCall.log_path].st = "ok"
         /\ Len(tokens) >= 2
         /\ \A k \in 1..Len(tokens) : ValidRepo(tokens[k]))
        => /\ ~IsRaised(result)
           /\ \A k \in 1..Len(tokens) : tokens[k] \in Range(result.repos)
           /\ \A i \in 1..Len(result.repos) :
                \E n \in 1..Len(content) : Contains(result.repos[i], content[n])

\* C12 amended: ... the output holds every URL of that line and, besides
\* them, only URLs that occur in the content and the supplemental fixed
\* references that jenkins_fetch_and_vectorize.extract_repos_from_log appends.
C12_FirstLineListScannedAndSupplemental ==
  LET content == files[lastCall.log_path].content
      tokens == StripNonEmpty(Split(FirstLine(content), ","))
  IN  (lastCall.op \in {"extract_repos_from_log", "_extract_repos_from_log"}
         /\ files[lastCall.log_path].st = "ok"
         /\ Len(tokens) >= 2
         /\ \A k \in 1..Len(tokens) : ValidRepo(tokens[k]))
        => /\ ~IsRaised(result)
           /\ \A k \in 1..Len(tokens) : tokens[k] \in Range(result.repos)
           /\ \A i \in 1..Len(result.repos) :
                \/ \E n \in 1..Len(content) : Contains(result.repos[i], content[n])
                \/ /\ lastCall.op = "extract_repos_from_log"
                   /\ result.repos[i] \in Range(additional_repos)

C12_Witness ==
  /\ lastCall.op = "extract_repos_from_log"
  /\ files[lastCall.log_path].st = "ok"
  /\ FirstLine(files[lastCall.log_path].content) = UrlKit \o <<",">> \o UrlK
  /\ UrlKit \in Range(result.repos)
  /\ UrlK \in Range(result.repos)
  /\ additional_repos[1] \in Range(result.repos)

\* C13: for a log whose first line is a single repository URL and whose body
\* mentions no other repository, the extractor returns that URL, together
\* with the supplemental fixed references and nothing else.
C13_SingleUrlFirstLine ==
  LET content == files[lastCall.log_path].content
      first == FirstLine(content)
  IN  (lastCall.op \in {"extract_repos_from_log", "_extract_repos_from_log"}
         /\ files[lastCall.log_path].st = "ok"
         /\ StartsWith(first, HttpsPrefix) /\ EndsWith(first, DotGit)
         /\ ~Contains(<<",">>, first) /\ ~Contains(<<" ">>, first)
         /\ \A n \in 2..Len(content) : ~Contains(<<"h","t","t","p">>, content[n]))
        => /\ ~IsRaised(result)
           /\ first \in Range(result.repos)
           /\ Range(result.repos) \subseteq {first} \cup Range(additional_repos)

---------------------------------------------------------------------------
(* Direct calls of JenkinsAnalyzer._extract_build_info                     *)

\* log paths whose file names cover the cases of the two file-name patterns:
\* a stamp that is a date; month 13; 30 February; 29 February of a common
\* year, of a leap year and of 1900; 31 April; day 00; hour 24; minute 60;
\* second 60; year 0000; no stamp; no build number; neither
BuildLogPaths ==
  { FailurePath,
    <<"l","o","g","s","/","f","a","i","l","u","r","e","/","j","o","b","_","b","u","i","l","d","_","2","3","1","_","2","0","2","5","1","3","0","1","_","0","0","0","0","0","0",".","t","x","t">>,
    <<"l","o","g","s","/","f","a","i","l","u","r","e","/","j","o","b","_","b","u","i","l","d","_","2","3","2","_","2","0","2","5","0","2","3","0","_","1","0","1","0","1","0",".","t","x","t">>,
    <<"l","o","g","s","/","f","a","i","l","u","r","e","/","j","o","b","_","b","u","i","l","d","_","2","3","3","_","2","0","2","3","0","2","2","9","_","1","0","1","0","1","0",".","t","x","t">>,
    <<"l","o","g","s","/","f","a","i","l","u","r","e","/","j","o","b","_","b","u","i","l","d","_","2","3","4","_","2","0","2","4","0","2","2","9","_","2","3","5","9","5","9",".","t","x","t">>,
    <<"l","o","g","s","/","f","a","i","l","u","r","e","/","j","o","b","_","b","u","i","l","d","_","1","9","0","0","0","2","2","9","_","1","0","1","0","1","0",".","t","x","t">>,
    <<"l","o","g","s","/","f","a","i","l","u","r","e","/","j","o","b","_","b","u","i","l","d","_","2","3","5","_","2","0","2","5","0","4","3","1","_","0","0","0","0","0","0",".","t","x","t">>,
    <<"l","o","g","s","/","f","a","i","l","u","r","e","/","j","o","b","_","b","u","i","l","d","_","2","3","6","_","2","0","2","5","0","7","0","0","_","0","0","0","0","0","0",".","t","x","t">>,
    <<"l","o","g","s","/","f","a","i","l","u","r","e","/","j","o","b","_","b","u","i","l","d","_","2","3","7","_","2","0","2","5","0","7","3","1","_","2","4","0","0","0","0",".","t","x","t">>,
    <<"l","o","g","s","/","f","a","i","l","u","r","e","/","j","o","b","_","b","u","i","l","d","_","2","3","8","_","2","0","2","5","0","7","3","1","_","1","2","6","0","0","0",".","t","x","t">>,
    <<"l","o","g","s","/","f","a","i","l","u","r","e","/","j","o","b","_","b","u","i","l","d","_","2","3","9","_","2","0","2","5","0","7","3","1","_","1","2","5","9","6","0",".","t","x","t">>,
    <<"l","o","g","s","/","f","a","i","l","u","r","e","/","j","o","b","_","b","u","i","l","d","_","2","4","0","_","0","0","0","0","0","1","0","1","_","0","0","0","0","0","0",".","t","x","t">>,
    <<"l","o","g","s","/","f","a","i","l","u","r","e","/","j","o","b","_","b","u","i","l","d","_","2","4","1",".","t","x","t">>,
    <<"l","o","g","s","/","c","o","n","s","o","l","e","_","2","0","2","5","0","7","3","1","_","1","2","5","9","2","4",".","l","o","g">>,
    <<"c","o","n","s","o","l","e",".","l","o","g">> }

InitBuildInfo ==
  /\ files = [p \in LogPaths |-> Absent]
  /\ llm = FALSE
  /\ slots = EmptyDict
  /\ store = EmptyDict
  /\ run = IdleRun
  /\ result = NoResult
  /\ lastCall = NoCall
  /\ llmCalls = 0
  /\ genOut = "none"
  /\ cloneHist = <<>>
  /\ fetchOk = {}
  /\ indexHist = <<>>

\* self._extract_build_info(log_path, log_content)
CallExtractBuildInfo(log_path, log_content) ==
  /\ result' = extract_build_info(Basename(log_path), log_content)
  /\ lastCall' = [op |-> "_extract_build_info", log_path |-> log_path,
                  log_content |-> log_content]
  /\ UNCHANGED << files, llm, slots, store, run, llmCalls, genOut,
                  cloneHist, fetchOk, indexHist >>

NextBuildInfo ==
  \E log_path \in BuildLogPaths : \E log_content \in LogTexts :
    CallExtractBuildInfo(log_path, log_content)

SpecBuildInfo == InitBuildInfo /\ [][NextBuildInfo]_vars

\* C20: _extract_build_info never raises, for any file name and log text: a
\* field whose pattern does not match is absent from the result, and a
\* file-name timestamp that matches \d{8}_\d{6} but is no date yields
\* 'Unknown' for build_time.
C20_BuildInfoNeverRaises ==
  lastCall.op = "_extract_build_info"
    => LET filename == Basename(lastCall.log_path)
           stamp == TimestampOf(filename)
       IN  /\ ~IsRaised(result)
           /\ BuildNumberOf(filename) = <<>> => "build_number" \notin DOMAIN result
           /\ stamp = <<>> => "build_time" \notin DOMAIN result
           /\ ~InContent(<<"S","t","a","r","t","e","d"," ","b","y"," ","u","s","e","r"," ">>, lastCall.log_content)
                => "started_by" \notin DOMAIN result
           /\ ~InContent(<<"F","i","n","i","s","h","e","d",":"," ">>, lastCall.log_content)
                => "status" \notin DOMAIN result
           /\ (stamp # <<>> /\ ~StampParses(stamp))
                => ("build_time" \in DOMAIN result /\ result.build_time = Unknown)

C20_Witness ==
  /\ lastCall.op = "_extract_build_info"
  /\ Basename(lastCall.log_path) = <<"j","o","b","_","b","u","i","l","d","_","2","3","2","_","2","0","2","5","0","2","3","0","_","1","0","1","0","1","0",".","t","x","t">>
  /\ lastCall.log_content = << LineStep >>
  /\ DOMAIN result = {"build_number", "build_time"}
  /\ result.build_time = Unknown

---------------------------------------------------------------------------
(* Batch analysis (routes.analyze_batch_logs)                              *)

\* the request bodies: every list of at most three of the log paths
BatchRequests == UNION {[1..n -> LogPaths] : n \in 0..3}

InitBatch ==
  /\ files \in {[p \in LogPaths |-> IF p = FailurePath THEN a ELSE b] :
                  a \in {Absent, Unreadable, Readable(<< UrlKit, LineDns >>),
                         Readable(<< LineStep >>)},
                  b \in {Absent, Readable(<< LineStep >>)}}
  /\ llm \in BOOLEAN
  /\ slots = EmptyDict
  /\ store = EmptyDict
  /\ run = IdleRun
  /\ result = NoResult
  /\ lastCall = NoCall
  /\ llmCalls = 0
  /\ genOut = "none"
  /\ cloneHist = <<>>
  /\ fetchOk = {}
  /\ indexHist = <<>>

\* analyze_batch_logs(log_paths) is entered: results = []
StartBatch(log_paths) ==
  /\ run.pc = "idle"
  /\ run' = [pc |-> "batch", log_paths |-> log_paths, k |-> 1, results |-> <<>>]
  /\ lastCall' = [op |-> "analyze_batch_logs", log_paths |-> log_paths]
  /\ UNCHANGED << files, llm, slots, store, result, llmCalls, genOut,
                  cloneHist, fetchOk, indexHist >>

\* the loop over log_paths ended by its first failed entry
BatchStepStopsAtFailure ==
  /\ run.pc = "batch"
  /\ run.k <= Len(run.log_paths)
  /\ LET log_path == run.log_paths[run.k]
     IN  IF files[log_path].st = "absent"
           THEN run' = [run EXCEPT !.k = Len(run.log_paths) + 1,
                          !.results = Append(@, [log_path |-> log_path,
                                                 error |-> "File not found",
                                                 status |-> "failed"])]
           ELSE \E d \in analyze_failure(files, llm, store, log_path, None) :
                  run' = [run EXCEPT
                            !.k = IF IsRaised(d.ret) THEN Len(run.log_paths) + 1 ELSE @ + 1,
                            !.results = Append(@,
                               IF IsRaised(d.ret)
                                 THEN [log_path |-> log_path, error |-> d.ret.raised,
                                       status |-> "failed"]
                                 ELSE [log_path |-> log_path, analysis |-> d.ret,
                                       status |-> "completed"])]
  /\ UNCHANGED << files, llm, slots, store, result, lastCall, llmCalls, genOut,
                  cloneHist, fetchOk, indexHist >>

\* one iteration of  for log_path in log_paths
BatchStep ==
  /\ run.pc = "batch"
  /\ run.k <= Len(run.log_paths)
  /\ LET log_path == run.log_paths[run.k]
     IN  IF files[log_path].st = "absent"
           THEN run' = [run EXCEPT !.k = @ + 1,
                          !.results = Append(@, [log_path |-> log_path,
                                                 error |-> "File not found",
                                                 status |-> "failed"])]
           ELSE \E d \in analyze_failure(files, llm, store, log_path, None) :
                  run' = [run EXCEPT !.k = @ + 1,
                            !.results = Append(@,
                               IF IsRaised(d.ret)
                                 THEN [log_path |-> log_path, error |-> d.ret.raised,
                                       status |-> "failed"]
                                 ELSE [log_path |-> log_path, analysis |-> d.ret,
                                       status |-> "completed"])]
  /\ UNCHANGED << files, llm, slots, store, result, lastCall, llmCalls, genOut,
                  cloneHist, fetchOk, indexHist >>

\* len([r for r in results if r["status"] == status])
RECURSIVE CountStatus(_, _)
CountStatus(results, status) ==
  IF results = <<>> THEN 0
  ELSE (IF Head(results).status = status THEN 1 ELSE 0) + CountStatus(Tail(results), status)

\* the return statement after the loop
BatchReturn ==
  /\ run.pc = "batch"
  /\ run.k > Len(run.log_paths)
  /\ result' = [total_logs |-> Len(run.log_paths),
                completed |-> CountStatus(run.results, "completed"),
                failed |-> CountStatus(run.results, "failed"),
                results |-> run.results]
  /\ run' = [run EXCEPT !.pc = "returned"]
  /\ UNCHANGED << files, llm, slots, store, lastCall, llmCalls, genOut,
                  cloneHist, fetchOk, indexHist >>

NextBatch ==
  \/ \E log_paths \in BatchRequests : StartBatch(log_paths)
  \/ BatchStep
  \/ BatchReturn

SpecBatch == InitBatch /\ [][NextBatch]_vars

---------------------------------------------------------------------------
(* Log fetcher: classification and saving of a console text               *)
(* (JenkinsFetcher._determine_build_status, _save_single_build_log)        *)

success_indicators ==
  << <<"F","i","n","i","s","h","e","d",":"," ","S","U","C","C","E","S","S">>, <<"S","U","C","C","E","S","S">>, <<"B","u","i","l","d"," ","c","o","m","p","l","e","t","e","d"," ","s","u","c","c","e","s","s","f","u","l","l","y">>,
     <<"P","i","p","e","l","i","n","e"," ","c","o","m","p","l","e","t","e","d"," ","s","u","c","c","e","s","s","f","u","l","l","y">> >>

failure_indicators ==
  << <<"F","i","n","i","s","h","e","d",":"," ","F","A","I","L","U","R","E">>, <<"F","A","I","L","U","R","E">>, <<"B","u","i","l","d"," ","f","a","i","l","e","d">>, <<"P","i","p","e","l","i","n","e"," ","f","a","i","l","e","d">>,
     <<"E","R","R","O","R",":">>, <<"E","x","c","e","p","t","i","o","n",":">>, <<"F","a","i","l","e","d"," ","t","o">> >>

\* _determine_build_status with True as the value returned when no indicator
\* is found
determine_build_status_default_success(console_content) ==
  IF \E k \in 1..Len(failure_indicators) :
       InContentLower(Lower(failure_indicators[k]), console_content)
    THEN (\E k \in 1..Len(success_indicators) :
            InContentLower(Lower(success_indicators[k]), console_content))
    ELSE TRUE

\* _determine_build_status(console_content): the success loop returns before
\* the failure loop is entered
determine_build_status(console_content) ==
  IF \E k \in 1..Len(success_indicators) :
       InContentLower(Lower(success_indicators[k]), console_content)
    THEN TRUE
  ELSE IF \E k \in 1..Len(failure_indicators) :
       InContentLower(Lower(failure_indicators[k]), console_content)
    THEN FALSE
  ELSE FALSE

\* the lines of the console texts the fetcher downloads
ConsoleLines ==
  { <<"F","i","n","i","s","h","e","d",":"," ","S","U","C","C","E","S","S">>, <<"F","i","n","i","s","h","e","d",":"," ","F","A","I","L","U","R","E">>, <<"B","u","i","l","d"," ","c","o","m","p","l","e","t","e","d"," ","s","u","c","c","e","s","s","f","u","l","l","y">>,
    <<"P","i","p","e","l","i","n","e"," ","f","a","i","l","e","d">>, <<"E","R","R","O","R",":"," ","s","c","r","i","p","t"," ","r","e","t","u","r","n","e","d"," ","e","x","i","t"," ","c","o","d","e"," ","1">>,
    <<"T","e","s","t","s"," ","p","a","s","s","e","d",","," ","s","u","c","c","e","s","s"," ","r","a","t","e"," ","1","0","0","%">>, <<"[","I","N","F","O","]"," ","B","U","I","L","D"," ","S","U","C","C","E","S","S","F","U","L">>,
    <<"j","a","v","a",".","l","a","n","g",".","E","x","c","e","p","t","i","o","n",":"," ","b","o","o","m">>, LineStep, <<>> }

\* console texts of one or two lines
ConsoleTexts == {<<a>> : a \in ConsoleLines} \cup {<<a, b>> : a, b \in ConsoleLines}

InitSave ==
  /\ files = EmptyDict
  /\ llm = FALSE
  /\ slots = EmptyDict
  /\ store = EmptyDict
  /\ run = IdleRun
  /\ result = NoResult
  /\ lastCall = NoCall
  /\ llmCalls = 0
  /\ genOut = "none"
  /\ cloneHist = <<>>
  /\ fetchOk = {}
  /\ indexHist = <<>>

\* _save_single_build_log(build_info, console_content), once from the
\* initial state; timestamp is what time.strftime returns
CallSaveSingleBuildLog(build_number, timestamp, console_content) ==
  /\ lastCall = NoCall
  /\ LET is_success == determine_build_status(console_content)
         filename == <<"b","u","i","l","d","_">> \o build_number \o <<"_">> \o timestamp \o <<".","t","x","t">>
         filepath == (IF is_success THEN <<"j","e","n","k","i","n","s","_","a","p","i","/","l","o","g","s","/","s","u","c","c","e","s","s","/">>
                                    ELSE <<"j","e","n","k","i","n","s","_","a","p","i","/","l","o","g","s","/","f","a","i","l","u","r","e","/">>) \o filename
     IN  /\ files' = Put(files, filepath, Readable(console_content))
         /\ result' = [paths |-> <<filepath>>]
  /\ lastCall' = [op |-> "_save_single_build_log", build_number |-> build_number,
                  console_content |-> console_content]
  /\ UNCHANGED << llm, slots, store, run, llmCalls, genOut, cloneHist, fetchOk, indexHist >>

NextSave ==
  \E build_number \in {<<"2","2","9">>, <<"2","3","0">>} :
    \E timestamp \in {<<"2","0","2","5","0","7","3","1","_","1","2","5","9","2","4">>} :
      \E console_content \in ConsoleTexts :
        CallSaveSingleBuildLog(build_number, timestamp, console_content)

SpecSave == InitSave /\ [][NextSave]_vars

\* C26: _determine_build_status classifies as a failure every console text
\* that holds none of the success indicators and none of the failure
\* indicators, so such a log is saved under the failure directory.
C26_NoIndicatorIsSavedAsFailure ==
  (/\ lastCall.op = "_save_single_build_log"
   /\ \A k \in 1..Len(success_indicators) :
        ~InContentLower(Lower(success_indicators[k]), lastCall.console_content)
   /\ \A k \in 1..Len(failure_indicators) :
        ~InContentLower(Lower(failure_indicators[k]), lastCall.console_content))
    => /\ StartsWith(result.paths[1], <<"j","e","n","k","i","n","s","_","a","p","i","/","l","o","g","s","/","f","a","i","l","u","r","e","/">>)
       /\ DOMAIN files = {result.paths[1]}
       /\ files[result.paths[1]] = Readable(lastCall.console_content)

C26_Witness ==
  /\ lastCall.op = "_save_single_build_log"
  /\ lastCall.console_content = << LineStep >>
  /\ result.paths = << <<"j","e","n","k","i","n","s","_","a","p","i","/","l","o","g","s","/","f","a","i","l","u","r","e","/","b","u","i","l","d","_","2","3","0","_","2","0","2","5","0","7","3","1","_","1","2","5","9","2","4",".","t","x","t">> >>

\* C27: _determine_build_status classifies every console text that holds the
\* line 'Finished: FAILURE' as a failure, whatever else the text holds (the
\* word 'success' in any letter case included): the log is saved under the
\* failure directory.
C27_FinishedFailureIsSavedAsFailure ==
  (/\ lastCall.op = "_save_single_build_log"
   /\ \E i \in 1..Len(lastCall.console_content) :
        lastCall.console_content[i] = <<"F","i","n","i","s","h","e","d",":"," ","F","A","I","L","U","R","E">>)
    => StartsWith(result.paths[1], <<"j","e","n","k","i","n","s","_","a","p","i","/","l","o","g","s","/","f","a","i","l","u","r","e","/">>)

---------------------------------------------------------------------------
(* Two process_log_and_repos invocations at the same time, on logs that     *)
(* reference the same repository (UrlKit), its slot being absent at first.  *)
(* clone_repository and chunk_and_store_to_vector_db are interleaved at     *)
(* their blocking operations: the test of os.path.exists, the git clone     *)
(* subprocess from its start to its exit, the loading of the documents,     *)
(* and from_documents / save_local.                                         *)

\* the documents the rglob loops can load from directory_path: the chunks of
\* a complete working copy; those of the files checked out so far when the
\* clone is still running or was killed; nothing from a missing directory
LoadedDocuments(wc, directory_path) ==
  IF ~Exists(wc, directory_path) THEN {<<>>}
  ELSE LET chunks == RepoChunks(wc[directory_path].url)
       IN  IF wc[directory_path].complete THEN {chunks}
           ELSE {SubSeq(chunks, 1, n) : n \in 0..(Len(chunks) - 1)}

\* the working copies and indices that the two invocations can leave when
\* the second starts after the first has returned
SequentialFinals(tag1, tag2) ==
  LET dir == TargetDir(UrlKit)
      After(wc, st, tag) ==
        UNION {
          LET c == clone_repository(wc, UrlKit, dir, git)
          IN  IF ~c.ret THEN {[slots |-> c.slots, store |-> st]}
              ELSE UNION {
                     IF docs = <<>> THEN {[slots |-> c.slots, store |-> st]}
                     ELSE {[slots |-> c.slots, store |-> st],
                           [slots |-> c.slots, store |-> Put(st, tag, docs)]}
                     : docs \in LoadedDocuments(c.slots, dir)}
          : git \in GitOutcomes}
  IN  UNION {After(first.slots, first.store, tag2) : first \in After(EmptyDict, EmptyDict, tag1)}

InitRace ==
  /\ files = [p \in LogPaths |-> Readable(<< UrlKit, LineStep >>)]
  /\ llm = FALSE
  /\ slots = EmptyDict
  /\ store = EmptyDict
  /\ run \in {[p \in {1, 2} |-> [pc |-> "exists", tag |-> IF p = 1 THEN t1 ELSE t2,
                                 docs |-> <<>>]] : t1, t2 \in {TagFailure, TagAnalysis}}
  /\ result = NoResult
  /\ lastCall = NoCall
  /\ llmCalls = 0
  /\ genOut = "none"
  /\ cloneHist = <<>>
  /\ fetchOk = {}
  /\ indexHist = <<>>

\* clone_repository: if os.path.exists(target_dir): return True
RaceExists(p) ==
  /\ run[p].pc = "exists"
  /\ run' = [run EXCEPT ![p].pc = IF Exists(slots, TargetDir(UrlKit)) THEN "load" ELSE "git"]
  /\ UNCHANGED << files, llm, slots, store, result, lastCall, llmCalls, genOut,
                  cloneHist, fetchOk, indexHist >>

\* subprocess.run(['git', 'clone', ...]) starts: git exits at once with a
\* non-zero code when the destination exists and is not empty (clone_repository
\* returns False, nothing is indexed), and creates the destination otherwise
RaceGitStart(p) ==
  /\ run[p].pc = "git"
  /\ IF Exists(slots, TargetDir(UrlKit))
       THEN /\ run' = [run EXCEPT ![p].pc = "done"]
            /\ UNCHANGED slots
       ELSE /\ run' = [run EXCEPT ![p].pc = "cloning"]
            /\ slots' = Put(slots, TargetDir(UrlKit), [url |-> UrlKit, complete |-> FALSE])
  /\ UNCHANGED << files, llm, store, result, lastCall, llmCalls, genOut,
                  cloneHist, fetchOk, indexHist >>

\* the git clone subprocess ends: exit 0; non-zero exit, git removing what it
\* created; killed at the timeout, what it created staying behind
RaceGitEnd(p, git) ==
  /\ run[p].pc = "cloning"
  /\ git \in {"ok", "nonzero", "timeout_partial"}
  /\ slots' = IF git = "ok"
                THEN Put(slots, TargetDir(UrlKit), [url |-> UrlKit, complete |-> TRUE])
              ELSE IF git = "nonzero"
                THEN [d \in DOMAIN slots \ {TargetDir(UrlKit)} |-> slots[d]]
              ELSE slots
  /\ run' = [run EXCEPT ![p].pc = IF git = "ok" THEN "load" ELSE "done"]
  /\ UNCHANGED << files, llm, store, result, lastCall, llmCalls, genOut,
                  cloneHist, fetchOk, indexHist >>

\* chunk_and_store_to_vector_db(repo_dir, tag): the rglob loops; the function
\* returns when they load nothing
RaceLoad(p) ==
  /\ run[p].pc = "load"
  /\ \E docs \in LoadedDocuments(slots, TargetDir(UrlKit)) :
       run' = [run EXCEPT ![p].docs = docs,
                          ![p].pc = IF docs = <<>> THEN "done" ELSE "save"]
  /\ UNCHANGED << files, llm, slots, store, result, lastCall, llmCalls, genOut,
                  cloneHist, fetchOk, indexHist >>

\* FAISS.from_documents(documents, embeddings) and save_local(tag); the call
\* on the log path that follows loads nothing and returns
RaceSave(p, embed) ==
  /\ run[p].pc = "save"
  /\ store' = IF embed = "ok" THEN Put(store, run[p].tag, run[p].docs) ELSE store
  /\ run' = [run EXCEPT ![p].pc = "done"]
  /\ UNCHANGED << files, llm, slots, result, lastCall, llmCalls, genOut,
                  cloneHist, fetchOk, indexHist >>

NextRace ==
  \E p \in {1, 2} :
    \/ RaceExists(p)
    \/ RaceGitStart(p)
    \/ \E git \in GitOutcomes : RaceGitEnd(p, git)
    \/ RaceLoad(p)
    \/ \E embed \in EmbedOutcomes : RaceSave(p, embed)

SpecRace == InitRace /\ [][NextRace]_vars

\* C21: two process_log_and_repos invocations at the same time on the same
\* repository, its slot absent, do redundant work only: in every interleaving
\* the working copy and the index they leave are ones that the two
\* invocations leave when run one after the other.
C21_RaceLeavesASequentialOutcome ==
  (\A p \in {1, 2} : run[p].pc = "done")
    => \/ [slots |-> slots, store |-> store] \in SequentialFinals(run[1].tag, run[2].tag)
       \/ [slots |-> slots, store |-> store] \in SequentialFinals(run[2].tag, run[1].tag)

=============================================================================
